---- MODULE Spec2Model ----
(***************************************************************************)
(* MiniGit (src/MiniGit.cpp, src/MiniGit.h, src/main.cpp) as a state       *)
(* machine.                                                                *)
(*                                                                         *)
(* A std::string is modelled as a finite sequence of tokens.  The tokens   *)
(* ":" "," and "\n" are the delimiter characters of the on-disk formats;   *)
(* every other token stands for a run of ordinary characters.  Every file  *)
(* of the repository (.minigit/HEAD, refs/branches, index, MERGE_HEAD, the *)
(* objects) holds such a string, written by the save functions and parsed  *)
(* back by the load functions exactly as the source does.                  *)
(*                                                                         *)
(* One operation of the class MiniGit is a function from a record of the   *)
(* whole state (the fields below) to the record after the call, so that an *)
(* operation which calls another one (merge -> performThreeWayMerge ->     *)
(* commit) is the composition the source executes.                         *)
(***************************************************************************)
EXTENDS Naturals, Sequences, FiniteSets, TLC

VARIABLES
    repoExists,     \* the directory .minigit (with objects/ and refs/) exists
    headFile,       \* content of .minigit/HEAD            ("" when missing)
    branchesFile,   \* content of .minigit/refs/branches   ("" when missing)
    indexFile,      \* content of .minigit/index           ("" when missing)
    mergeHead,      \* {} when .minigit/MERGE_HEAD is missing, {content} otherwise
    objects,        \* .minigit/objects: file name (an OID) -> content
    workTree,       \* the working directory: path -> content of the file
    currentBranch,  \* MiniGit::currentBranch (in memory)
    clock,          \* the system clock, in seconds
    spent,          \* the user's edits and the commits made since Init
    last            \* the last step, if it ran an observed command: the
                    \* command, its argument and the lines it printed

vars == <<repoExists, headFile, branchesFile, indexFile, mergeHead, objects,
          workTree, currentBranch, clock, spent, last>>

----------------------------------------------------------------------------
(* Bounds and the inputs the commands are run with.                        *)

\* how many edits of the working directory and commits, together, a run
\* makes after Init
MaxSteps == 2
\* the seconds the clock shows during a run
Seconds == {0, 1}

NL == "\n"
EmptyStr == <<>>
EmptyMap == [k \in {} |-> <<>>]

\* the file names of a run, in the order std::set<std::string> iterates,
\* and those of them the steps of a run write, delete and add
PathOrder == << <<"a">>, <<"a", ",", "b">>, <<"b">>, <<"c">> >>
Paths == {PathOrder[i] : i \in {1, 3}}
\* the branch names of a run, in std::map order, and those of them the
\* steps of a run give to branch, checkout and merge
BranchOrder == << <<"dev">>, <<"feat">>, <<"master">> >>
BranchNames == {BranchOrder[i] : i \in 2..3}
\* what the user writes into a working file
Contents == { <<"X", NL>>, <<"Y", NL>> }
Messages == { <<"m">> }

----------------------------------------------------------------------------
(* std::string and stream helpers.                                         *)

\* std::string::find(tok): the first position of tok, 0 for npos
Find(s, tok) ==
    IF \E i \in 1..Len(s) : s[i] = tok
    THEN CHOOSE i \in 1..Len(s) : s[i] = tok /\ \A j \in 1..(i - 1) : s[j] # tok
    ELSE 0

\* s.substr(n) with n counted in tokens
Drop(s, n) == SubSeq(s, n + 1, Len(s))

\* line.find(prefix) == 0
StartsWith(s, p) == Len(s) >= Len(p) /\ SubSeq(s, 1, Len(p)) = p

Whitespace == {" ", NL, "\r", "\t"}

\* s.erase(s.find_last_not_of(" \n\r\t") + 1)
RECURSIVE RTrim(_)
RTrim(s) ==
    IF s = <<>> THEN s
    ELSE IF s[Len(s)] \in Whitespace THEN RTrim(SubSeq(s, 1, Len(s) - 1))
    ELSE s

\* the pieces successive std::getline(stream, piece, delim) calls return
RECURSIVE Split(_, _)
Split(s, delim) ==
    IF s = <<>> THEN <<>>
    ELSE LET i == Find(s, delim)
         IN  IF i = 0 THEN <<s>>
             ELSE <<SubSeq(s, 1, i - 1)>> \o Split(Drop(s, i), delim)

\* the concatenation of a sequence of strings
RECURSIVE Concat(_)
Concat(ss) == IF ss = <<>> THEN <<>> ELSE Head(ss) \o Concat(Tail(ss))

Range(f) == {f[i] : i \in DOMAIN f}

\* the elements of a std::set / keys of a std::map in iteration order
Sorted(S, order) == SelectSeq(order, LAMBDA e : e \in S)

----------------------------------------------------------------------------
(* Core utility functions (MiniGit.cpp 403-436).                           *)

\* std::hash rendered in hex: one token without delimiters, never empty; the
\* digest is taken to be collision-free (distinct contents, distinct tokens)
computeHash(content) == <<ToString(content)>>

\* "%Y-%m-%d %H:%M:%S" of the current second
getCurrentTime(s) == <<"d", ToString(s.clock), ":", "00">>

\* a working-tree file is read; a file that cannot be opened reads as ""
readFromFile(s, path) ==
    IF path \in DOMAIN s.workTree THEN s.workTree[path] ELSE EmptyStr

\* objectsDir + "/" + hash is read
readObject(s, hash) ==
    IF hash \in DOMAIN s.objects THEN s.objects[hash] ELSE EmptyStr

\* a working-tree file is (over)written
writeToFile(s, path, content) ==
    [s EXCEPT !.workTree = (path :> content) @@ @]

\* fs::remove of a working-tree file
removeFile(s, path) ==
    [s EXCEPT !.workTree = [p \in (DOMAIN @) \ {path} |-> @[p]]]

\* writeToFile(objectsDir + "/" + hash, content): the stream does not open,
\* and nothing is written, when the directory does not exist
writeObject(s, hash, content) ==
    IF s.repoExists /\ hash # EmptyStr
    THEN [s EXCEPT !.objects = (hash :> content) @@ @]
    ELSE s

\* writeToFile of one of the files .minigit/HEAD, refs/branches, index
writeRepoFile(s, file, content) ==
    IF s.repoExists THEN [s EXCEPT ![file] = content] ELSE s

----------------------------------------------------------------------------
(* Commit objects (MiniGit.h 12-19, MiniGit.cpp 438-481).                  *)

EmptyCommit(hash) ==
    [hash |-> hash, message |-> EmptyStr, timestamp |-> EmptyStr,
     parent |-> EmptyStr, filenames |-> <<>>, blobHashes |-> <<>>]

\* the "name:hash,name:hash" payload of the files: line
RECURSIVE fileEntries(_, _)
fileEntries(filenames, blobHashes) ==
    IF filenames = <<>> THEN EmptyStr
    ELSE Head(filenames) \o <<":">> \o Head(blobHashes)
         \o (IF Len(filenames) > 1 THEN <<",">> ELSE EmptyStr)
         \o fileEntries(Tail(filenames), Tail(blobHashes))

\* the text of saveCommit with the commit's own hash on the parent: line
commitTextOwnParent(commit) ==
    <<"message", ":">> \o commit.message \o <<NL>>
    \o <<"timestamp", ":">> \o commit.timestamp \o <<NL>>
    \o <<"parent", ":">> \o commit.hash \o <<NL>>
    \o <<"files", ":">> \o fileEntries(commit.filenames, commit.blobHashes)
    \o <<NL>>

\* the text saveCommit writes
commitText(commit) ==
    <<"message", ":">> \o commit.message \o <<NL>>
    \o <<"timestamp", ":">> \o commit.timestamp \o <<NL>>
    \o <<"parent", ":">> \o commit.parent \o <<NL>>
    \o <<"files", ":">> \o fileEntries(commit.filenames, commit.blobHashes)
    \o <<NL>>

\* saveCommit that writes no file
saveCommitNowhere(s, commit) == s

saveCommit(s, commit) == writeObject(s, commit.hash, commitText(commit))

\* the entries of one files: line, pushed onto the commit
RECURSIVE parseFileEntries(_, _)
parseFileEntries(entries, commit) ==
    IF entries = <<>> THEN commit
    ELSE LET fileEntry == Head(entries)
             colon == Find(fileEntry, ":")
             next == IF colon # 0
                     THEN [commit EXCEPT
                             !.filenames = Append(@, SubSeq(fileEntry, 1, colon - 1)),
                             !.blobHashes = Append(@, Drop(fileEntry, colon))]
                     ELSE commit
         IN  parseFileEntries(Tail(entries), next)

\* one line of a commit file
parseCommitLine(line, commit) ==
    IF StartsWith(line, <<"message", ":">>)
    THEN [commit EXCEPT !.message = Drop(line, 2)]
    ELSE IF StartsWith(line, <<"timestamp", ":">>)
    THEN [commit EXCEPT !.timestamp = Drop(line, 2)]
    ELSE IF StartsWith(line, <<"parent", ":">>)
    THEN [commit EXCEPT !.parent = Drop(line, 2)]
    ELSE IF StartsWith(line, <<"files", ":">>)
    THEN parseFileEntries(Split(Drop(line, 2), ","), commit)
    ELSE commit

RECURSIVE parseCommitLines(_, _)
parseCommitLines(lines, commit) ==
    IF lines = <<>> THEN commit
    ELSE parseCommitLines(Tail(lines), parseCommitLine(Head(lines), commit))

loadCommit(s, hash) ==
    parseCommitLines(Split(readObject(s, hash), NL), EmptyCommit(hash))

\* std::map built by files[filenames[i]] = blobHashes[i], i ascending
fileMap(commit) ==
    [f \in Range(commit.filenames) |->
        LET i == CHOOSE i \in 1..Len(commit.filenames) :
                    /\ commit.filenames[i] = f
                    /\ \A j \in (i + 1)..Len(commit.filenames) :
                          commit.filenames[j] # f
        IN  commit.blobHashes[i]]

getCommitFiles(s, commitHash) ==
    IF commitHash = EmptyStr THEN EmptyMap ELSE fileMap(loadCommit(s, commitHash))

----------------------------------------------------------------------------
(* HEAD, branches and the index (MiniGit.cpp 483-553).                     *)

\* the text saveBranches writes: one "name:hash\n" per entry, in map order
RECURSIVE branchLines(_, _)
branchLines(names, map) ==
    IF names = <<>> THEN EmptyStr
    ELSE Head(names) \o <<":">> \o map[Head(names)] \o <<NL>>
         \o branchLines(Tail(names), map)

saveBranches(s) ==
    writeRepoFile(s, "branchesFile",
                  branchLines(Sorted(DOMAIN s.branches, BranchOrder), s.branches))

\* updateHEAD without lines 486-487: HEAD is written, the branch map is not
updateHEADOnly(s, commitHash) ==
    writeRepoFile(s, "headFile", s.currentBranch \o <<":">> \o commitHash)

\* updateHEAD on a branch map that holds the current branch alone
updateHEADAlone(s, commitHash) ==
    LET s1 == writeRepoFile(s, "headFile", s.currentBranch \o <<":">> \o commitHash)
        s2 == [s1 EXCEPT !.branches = (s.currentBranch :> commitHash)]
    IN  saveBranches(s2)

updateHEAD(s, commitHash) ==
    LET s1 == writeRepoFile(s, "headFile", s.currentBranch \o <<":">> \o commitHash)
        s2 == [s1 EXCEPT !.branches = (s.currentBranch :> commitHash) @@ @]
    IN  saveBranches(s2)

getHEAD(s) ==
    IF s.headFile = EmptyStr THEN EmptyStr
    ELSE LET content == RTrim(s.headFile)
             colon == Find(content, ":")
         IN  IF colon # 0 THEN Drop(content, colon) ELSE EmptyStr

\* the lines of refs/branches, entered into the map one after the other
RECURSIVE parseBranchLines(_, _)
parseBranchLines(lines, map) ==
    IF lines = <<>> THEN map
    ELSE LET line == RTrim(Head(lines))
             colon == Find(line, ":")
             next == IF line # EmptyStr /\ colon # 0
                     THEN (SubSeq(line, 1, colon - 1) :> Drop(line, colon)) @@ map
                     ELSE map
         IN  parseBranchLines(Tail(lines), next)

loadBranches(s) ==
    LET map == parseBranchLines(Split(s.branchesFile, NL), EmptyMap)
    IN  [s EXCEPT !.branches = IF DOMAIN map = {}
                               THEN (<<"master">> :> EmptyStr)
                               ELSE map]

loadStagedFiles(s) ==
    LET lines == Split(s.indexFile, NL)
    IN  [s EXCEPT !.stagedFiles =
            {RTrim(lines[i]) : i \in 1..Len(lines)} \ {EmptyStr}]

RECURSIVE indexLines(_)
indexLines(files) ==
    IF files = <<>> THEN EmptyStr
    ELSE Head(files) \o <<NL>> \o indexLines(Tail(files))

saveStagedFiles(s) ==
    writeRepoFile(s, "indexFile", indexLines(Sorted(s.stagedFiles, PathOrder)))

\* fs::remove(.minigit/MERGE_HEAD) when it exists
cleanupMergeState(s) == [s EXCEPT !.mergeHead = {}]

----------------------------------------------------------------------------
(* History walks and merge helpers (MiniGit.cpp 555-620).  A walk along    *)
(* parent links is cut after more steps than there are objects: only a     *)
(* cycle of parent links makes a walk that long.                           *)

WalkLimit(s) == Cardinality(DOMAIN s.objects) + 1

RECURSIVE ancestorsOf(_, _, _)
ancestorsOf(s, current, fuel) ==
    IF current = EmptyStr \/ fuel = 0 THEN {}
    ELSE {current} \cup ancestorsOf(s, loadCommit(s, current).parent, fuel - 1)

RECURSIVE firstCommon(_, _, _, _)
firstCommon(s, current, ancestors1, fuel) ==
    IF current = EmptyStr \/ fuel = 0 THEN EmptyStr
    ELSE IF current \in ancestors1 THEN current
    ELSE firstCommon(s, loadCommit(s, current).parent, ancestors1, fuel - 1)

\* findCommonAncestor with the second walk started at the parent of commit2
findCommonAncestorFromParent(s, commit1, commit2) ==
    IF commit1 = EmptyStr \/ commit2 = EmptyStr THEN EmptyStr
    ELSE firstCommon(s, loadCommit(s, commit2).parent,
                     ancestorsOf(s, commit1, WalkLimit(s)), WalkLimit(s))

\* findCommonAncestor that falls back to commit1 when the walks never meet
findCommonAncestorOrFirst(s, commit1, commit2) ==
    LET found == firstCommon(s, commit2, ancestorsOf(s, commit1, WalkLimit(s)),
                             WalkLimit(s))
    IN  IF found = EmptyStr THEN commit1 ELSE found

findCommonAncestor(s, commit1, commit2) ==
    IF commit1 = EmptyStr \/ commit2 = EmptyStr THEN EmptyStr
    ELSE firstCommon(s, commit2, ancestorsOf(s, commit1, WalkLimit(s)), WalkLimit(s))

RECURSIVE ancestorWalk(_, _, _, _)
ancestorWalk(s, temp, ancestor, fuel) ==
    IF temp = EmptyStr \/ fuel = 0 THEN FALSE
    ELSE IF temp = ancestor THEN TRUE
    ELSE ancestorWalk(s, loadCommit(s, temp).parent, ancestor, fuel - 1)

\* isAncestor with the walk started from the wrong commit
isAncestorSwapped(s, child, ancestor) ==
    ancestorWalk(s, ancestor, child, WalkLimit(s))

isAncestor(s, child, ancestor) == ancestorWalk(s, child, ancestor, WalkLimit(s))

\* the loop of fastForwardMerge: every file of the commit is written
RECURSIVE writeCommitFiles(_, _, _)
writeCommitFiles(s, c, i) ==
    IF i > Len(c.filenames) THEN s
    ELSE writeCommitFiles(
            writeToFile(s, c.filenames[i], readObject(s, c.blobHashes[i])),
            c, i + 1)

fastForwardMerge(s, newHead) ==
    LET s1 == [s EXCEPT !.branches = (s.currentBranch :> newHead) @@ @]
        s2 == updateHEAD(s1, newHead)
    IN  IF newHead # EmptyStr
        THEN writeCommitFiles(s2, loadCommit(s2, newHead), 1)
        ELSE s2

----------------------------------------------------------------------------
(* The commands (MiniGit.cpp 622-943).  s.out collects the lines a command *)
(* prints, each a string, without the colour codes.                        *)

\* std::cout << line << "\n"
say(s, line) == [s EXCEPT !.out = Append(@, line)]

init(s) ==
    IF s.repoExists THEN say(s, <<"Repository already initialized.">>)
    ELSE LET s1 == [s EXCEPT !.repoExists = TRUE]
             s2 == writeRepoFile(s1, "headFile", <<"master", ":">>)
             s3 == writeRepoFile(s2, "branchesFile", <<"master", ":", NL>>)
             s4 == writeRepoFile(s3, "indexFile", EmptyStr)
             s5 == [s4 EXCEPT !.branches = (<<"master">> :> EmptyStr) @@ @,
                              !.currentBranch = <<"master">>]
         IN  say(s5, <<"Initialized empty MiniGit repository.">>)

add(s, filename) ==
    IF filename \notin DOMAIN s.workTree THEN say(s, <<"File not found.">>)
    ELSE LET content == readFromFile(s, filename)
             hash == computeHash(content)
             s1 == writeObject(s, hash, content)
             s2 == loadStagedFiles(s1)
             s3 == [s2 EXCEPT !.stagedFiles = @ \cup {filename}]
             s4 == saveStagedFiles(s3)
         IN  say(s4, <<"Added to staging area.">>)

\* the loop of commit without line 670: the hash of each staged file is
\* recorded, its blob is not written
RECURSIVE recordStaged(_, _, _)
recordStaged(s, files, commit) ==
    IF files = <<>> THEN [s |-> s, commit |-> commit]
    ELSE LET file == Head(files)
             hash == computeHash(readFromFile(s, file))
         IN  recordStaged(s, Tail(files),
                          [commit EXCEPT !.filenames = Append(@, file),
                                         !.blobHashes = Append(@, hash)])

\* the loop of commit over the staged files: each is read, its blob written
RECURSIVE storeStaged(_, _, _)
storeStaged(s, files, commit) ==
    IF files = <<>> THEN [s |-> s, commit |-> commit]
    ELSE LET file == Head(files)
             content == readFromFile(s, file)
             hash == computeHash(content)
         IN  storeStaged(writeObject(s, hash, content), Tail(files),
                         [commit EXCEPT !.filenames = Append(@, file),
                                        !.blobHashes = Append(@, hash)])

\* commit once the index is known not to be empty (MiniGit.cpp 663-685)
commitStaged(s1, message) ==
    LET c0 == [EmptyCommit(EmptyStr) EXCEPT
                   !.message = message,
                   !.timestamp = getCurrentTime(s1),
                   !.parent = getHEAD(s1)]
        r == storeStaged(s1, Sorted(s1.stagedFiles, PathOrder), c0)
        fullContent == message \o r.commit.timestamp \o r.commit.parent
                       \o Concat(r.commit.blobHashes)
        c == [r.commit EXCEPT !.hash = computeHash(fullContent)]
        s2 == saveCommit(r.s, c)
        s3 == updateHEAD(s2, c.hash)
        s4 == saveStagedFiles([s3 EXCEPT !.stagedFiles = {}])
        s5 == cleanupMergeState(s4)
    IN  say(s5, <<"Committed changes.">>)

\* commit with cleanupMergeState (line 684) moved in front of the check of
\* the index
commitCleansFirst(s, message) ==
    LET s1 == cleanupMergeState(loadBranches(loadStagedFiles(s)))
    IN  IF s1.stagedFiles = {} THEN say(s1, <<"No changes to commit.">>)
        ELSE commitStaged(s1, message)

commit(s, message) ==
    LET s1 == loadBranches(loadStagedFiles(s))
    IN  IF s1.stagedFiles = {} THEN say(s1, <<"No changes to commit.">>)
        ELSE commitStaged(s1, message)

\* branch with the new name entered without a commit
branchWithoutCommit(s, name) ==
    LET s1 == loadBranches(s)
    IN  IF name \in DOMAIN s1.branches THEN say(s1, <<"Branch already exists.">>)
        ELSE LET s2 == [s1 EXCEPT !.branches = (name :> EmptyStr) @@ @]
             IN  say(saveBranches(s2), <<"Created branch.">>)

branch(s, name) ==
    LET s1 == loadBranches(s)
    IN  IF name \in DOMAIN s1.branches THEN say(s1, <<"Branch already exists.">>)
        ELSE LET s2 == [s1 EXCEPT !.branches = (name :> getHEAD(s1)) @@ @]
             IN  say(saveBranches(s2), <<"Created branch.">>)

\* the removing loop left out, as fastForwardMerge has none
removeNothing(s, names, keep, verbose) == s

\* the loop that removes the files of a commit that the result lacks
\* (checkout 741-748 prints a line per file, performThreeWayMerge 930-934
\* does not)
RECURSIVE removeAbsent(_, _, _, _)
removeAbsent(s, names, keep, verbose) ==
    IF names = <<>> THEN s
    ELSE LET filename == Head(names)
             s1 == IF filename \notin keep /\ filename \in DOMAIN s.workTree
                   THEN LET s0 == removeFile(s, filename)
                        IN  IF verbose
                            THEN say(s0, <<"Removed: ">> \o filename)
                            ELSE s0
                   ELSE s
         IN  removeAbsent(s1, Tail(names), keep, verbose)

\* checkout, second loop: every file of the map is written from its blob
RECURSIVE writeFiles(_, _, _)
writeFiles(s, names, files) ==
    IF names = <<>> THEN s
    ELSE LET filename == Head(names)
             s1 == writeToFile(s, filename, readObject(s, files[filename]))
         IN  writeFiles(say(s1, <<"Updated: ">> \o filename), Tail(names), files)

\* checkout of a branch of the map, the index empty (MiniGit.cpp 733-759)
checkoutBranch(s1, target) ==
    LET currentHash == getHEAD(s1)
        targetHash == s1.branches[target]
        currentFiles == getCommitFiles(s1, currentHash)
        targetFiles == getCommitFiles(s1, targetHash)
        s2 == removeAbsent(s1, Sorted(DOMAIN currentFiles, PathOrder),
                           DOMAIN targetFiles, TRUE)
        s3 == writeFiles(s2, Sorted(DOMAIN targetFiles, PathOrder), targetFiles)
        s4 == [s3 EXCEPT !.currentBranch = target]
    IN  say(updateHEAD(s4, targetHash), <<"Switched to branch.">>)

\* checkout without the check of the index (lines 727-730)
checkoutDirty(s, target) ==
    LET s1 == loadStagedFiles(loadBranches(s))
    IN  IF target \in DOMAIN s1.branches
        THEN checkoutBranch(s1, target)
        ELSE say(s1, <<"Branch does not exist.">>)

checkout(s, target) ==
    LET s1 == loadStagedFiles(loadBranches(s))
    IN  IF s1.stagedFiles # {}
        THEN say(s1, <<"Cannot checkout: you have uncommitted changes.">>)
        ELSE IF target \in DOMAIN s1.branches
        THEN checkoutBranch(s1, target)
        ELSE say(s1, <<"Branch does not exist.">>)

\* files.count(name) ? files[name] : ""
hashIn(files, filename) ==
    IF filename \in DOMAIN files THEN files[filename] ELSE EmptyStr

\* the conflicted file left with ours' content, without the markers
conflictOursOnly(currentContent, targetContent, branchName) == currentContent

\* the text written into a conflicted file
conflictContent(currentContent, targetContent, branchName) ==
    <<"<<<<<<< HEAD", NL>> \o currentContent
    \o <<NL, "=======", NL>> \o targetContent
    \o <<NL, ">>>>>>> ">> \o branchName \o <<NL>>

\* the per-file round with one more case before the conflict: a path one
\* side has deleted and the other has changed is dropped without a conflict
mergeFileDeletionWins(m, filename, baseFiles, currentFiles, targetFiles, branchName) ==
    LET baseHash == hashIn(baseFiles, filename)
        currentHash == hashIn(currentFiles, filename)
        targetHash == hashIn(targetFiles, filename)
        keep(hash, line) ==
            IF hash # EmptyStr
            THEN [m EXCEPT !.mergedFiles = (filename :> hash) @@ @,
                           !.s = say(@, line \o filename)]
            ELSE m
    IN  IF currentHash = targetHash THEN keep(currentHash, <<"Unchanged: ">>)
        ELSE IF baseHash = targetHash /\ baseHash # currentHash
        THEN keep(currentHash, <<"Keep current: ">>)
        ELSE IF baseHash = currentHash /\ baseHash # targetHash
        THEN keep(targetHash, <<"Take target: ">>)
        ELSE IF baseHash # EmptyStr
                /\ (currentHash = EmptyStr \/ targetHash = EmptyStr)
        THEN m
        ELSE LET currentContent == IF currentHash = EmptyStr THEN EmptyStr
                                   ELSE readObject(m.s, currentHash)
                 targetContent == IF targetHash = EmptyStr THEN EmptyStr
                                  ELSE readObject(m.s, targetHash)
             IN  [m EXCEPT !.hasConflicts = TRUE,
                           !.s = writeToFile(say(@, <<"Conflict: ">> \o filename),
                                    filename,
                                    conflictContent(currentContent, targetContent,
                                                    branchName))]

\* one round of the per-file loop of performThreeWayMerge; m is the record
\* of the state, hasConflicts and mergedFiles
mergeFile(m, filename, baseFiles, currentFiles, targetFiles, branchName) ==
    LET baseHash == hashIn(baseFiles, filename)
        currentHash == hashIn(currentFiles, filename)
        targetHash == hashIn(targetFiles, filename)
        keep(hash, line) ==
            IF hash # EmptyStr
            THEN [m EXCEPT !.mergedFiles = (filename :> hash) @@ @,
                           !.s = say(@, line \o filename)]
            ELSE m
    IN  IF currentHash = targetHash THEN keep(currentHash, <<"Unchanged: ">>)
        ELSE IF baseHash = targetHash /\ baseHash # currentHash
        THEN keep(currentHash, <<"Keep current: ">>)
        ELSE IF baseHash = currentHash /\ baseHash # targetHash
        THEN keep(targetHash, <<"Take target: ">>)
        ELSE IF baseHash = EmptyStr /\ currentHash = targetHash
                /\ currentHash # EmptyStr
        THEN [m EXCEPT !.mergedFiles = (filename :> currentHash) @@ @,
                       !.s = say(@, <<"Same addition: ">> \o filename)]
        ELSE IF baseHash # EmptyStr /\ currentHash = EmptyStr
                /\ targetHash = EmptyStr
        THEN [m EXCEPT !.s = say(@, <<"Deleted in both: ">> \o filename)]
        ELSE LET currentContent == IF currentHash = EmptyStr THEN EmptyStr
                                   ELSE readObject(m.s, currentHash)
                 targetContent == IF targetHash = EmptyStr THEN EmptyStr
                                  ELSE readObject(m.s, targetHash)
             IN  [m EXCEPT !.hasConflicts = TRUE,
                           !.s = writeToFile(say(@, <<"Conflict: ">> \o filename),
                                    filename,
                                    conflictContent(currentContent, targetContent,
                                                    branchName))]

RECURSIVE mergeFiles(_, _, _, _, _, _)
mergeFiles(m, names, baseFiles, currentFiles, targetFiles, branchName) ==
    IF names = <<>> THEN m
    ELSE mergeFiles(mergeFile(m, Head(names), baseFiles, currentFiles,
                              targetFiles, branchName),
                    Tail(names), baseFiles, currentFiles, targetFiles, branchName)

\* the staging loop without line 925: the merged files are staged as they
\* are in the working directory
stageUnwritten(s, names, mergedFiles) ==
    [s EXCEPT !.stagedFiles = @ \cup Range(names)]

\* the loop that writes and stages the merged files
RECURSIVE stageMerged(_, _, _)
stageMerged(s, names, mergedFiles) ==
    IF names = <<>> THEN s
    ELSE LET filename == Head(names)
             s1 == writeToFile(s, filename, readObject(s, mergedFiles[filename]))
         IN  stageMerged([s1 EXCEPT !.stagedFiles = @ \cup {filename}],
                         Tail(names), mergedFiles)

performThreeWayMerge(s, currentHead, targetHead, ancestor, branchName) ==
    LET baseFiles == getCommitFiles(s, ancestor)
        currentFiles == getCommitFiles(s, currentHead)
        targetFiles == getCommitFiles(s, targetHead)
        allFiles == DOMAIN baseFiles \cup DOMAIN currentFiles \cup DOMAIN targetFiles
        m == mergeFiles([s |-> say(s, <<"Performing three-way merge...">>),
                         hasConflicts |-> FALSE, mergedFiles |-> EmptyMap],
                        Sorted(allFiles, PathOrder),
                        baseFiles, currentFiles, targetFiles, branchName)
    IN  IF m.hasConflicts
        THEN LET s1 == IF m.s.repoExists
                       THEN [m.s EXCEPT !.mergeHead = {targetHead}]
                       ELSE m.s
             IN  say(s1, <<"Merge conflicts detected.">>)
        ELSE LET s0 == say(m.s, <<"Auto-merge successful. Creating merge commit...">>)
                 s1 == stageMerged([s0 EXCEPT !.stagedFiles = {}],
                                   Sorted(DOMAIN m.mergedFiles, PathOrder),
                                   m.mergedFiles)
                 s2 == removeAbsent(s1, Sorted(DOMAIN currentFiles, PathOrder),
                                    DOMAIN m.mergedFiles, FALSE)
                 s3 == saveStagedFiles(s2)
                 s4 == commit(s3, <<"Merge branch '">> \o branchName \o <<"'">>)
             IN  say(s4, <<"Merge completed successfully.">>)

merge(s, branchName) ==
    LET s1 == loadStagedFiles(loadBranches(s))
        currentHead == getHEAD(s1)
        targetHead == s1.branches[branchName]
    IN  IF branchName \notin DOMAIN s1.branches
        THEN say(s1, <<"Branch does not exist.">>)
        ELSE IF branchName = s1.currentBranch
        THEN say(s1, <<"Cannot merge a branch with itself.">>)
        ELSE IF s1.stagedFiles # {}
        THEN say(s1, <<"Uncommitted changes detected.">>)
        ELSE IF currentHead = EmptyStr /\ targetHead = EmptyStr
        THEN say(s1, <<"Nothing to merge: both branches are empty.">>)
        ELSE IF currentHead = EmptyStr
        THEN say(fastForwardMerge(s1, targetHead),
                 <<"Fast-forward merge completed (current was empty).">>)
        ELSE IF targetHead = EmptyStr
        THEN say(s1, <<"Target branch is empty. Nothing to merge.">>)
        ELSE IF isAncestor(s1, currentHead, targetHead)
        THEN say(s1, <<"Already up to date. Nothing to merge.">>)
        ELSE IF isAncestor(s1, targetHead, currentHead)
        THEN say(fastForwardMerge(s1, targetHead), <<"Fast-forward merge completed.">>)
        ELSE LET ancestor == findCommonAncestor(s1, currentHead, targetHead)
             IN  IF ancestor = EmptyStr
                 THEN say(s1, <<"No common ancestor found.">>)
                 ELSE performThreeWayMerge(s1, currentHead, targetHead, ancestor,
                                           branchName)

----------------------------------------------------------------------------
(* diff (MiniGit.cpp 26-274).  A printed line of the edit script is the    *)
(* token "-" or "+" followed by the line; an empty printed line is <<>>.   *)

\* the lines std::getline returns from the text
splitLines(text) == Split(text, NL)

\* the table dp of computeLCS: dp[i, j] for the first i lines of a and the
\* first j lines of b
computeLCS(a, b) ==
    LET dp[i \in 0..Len(a), j \in 0..Len(b)] ==
            IF i = 0 \/ j = 0 THEN 0
            ELSE IF a[i] = b[j] THEN dp[i - 1, j - 1] + 1
            ELSE IF dp[i - 1, j] >= dp[i, j - 1] THEN dp[i - 1, j]
            ELSE dp[i, j - 1]
    IN  dp

\* the while loop of showUnifiedDiff (75-89), i and j counted from 0 as there
RECURSIVE editScript(_, _, _, _, _)
editScript(oldLines, newLines, lcs, i, j) ==
    LET oldSize == Len(oldLines)
        newSize == Len(newLines)
    IN  IF ~(i < oldSize \/ j < newSize) THEN <<>>
        ELSE IF i < oldSize /\ j < newSize /\ oldLines[i + 1] = newLines[j + 1]
        THEN editScript(oldLines, newLines, lcs, i + 1, j + 1)
        ELSE IF i < oldSize /\ (j >= newSize \/ lcs[i, j + 1] >= lcs[i + 1, j])
        THEN << <<"-">> \o oldLines[i + 1] >>
             \o editScript(oldLines, newLines, lcs, i + 1, j)
        ELSE << <<"+">> \o newLines[j + 1] >>
             \o editScript(oldLines, newLines, lcs, i, j + 1)

\* the walk with the test for equal lines left out: two lines that are both
\* there count as the same line
RECURSIVE editWalkPairing(_, _, _, _, _)
editWalkPairing(oldLines, newLines, lcs, i, j) ==
    LET oldSize == Len(oldLines)
        newSize == Len(newLines)
    IN  IF ~(i < oldSize \/ j < newSize) THEN <<>>
        ELSE IF i < oldSize /\ j < newSize
        THEN << <<"=">> \o oldLines[i + 1] >>
             \o editWalkPairing(oldLines, newLines, lcs, i + 1, j + 1)
        ELSE IF i < oldSize
        THEN << <<"-">> \o oldLines[i + 1] >>
             \o editWalkPairing(oldLines, newLines, lcs, i + 1, j)
        ELSE << <<"+">> \o newLines[j + 1] >>
             \o editWalkPairing(oldLines, newLines, lcs, i, j + 1)

\* the rounds of the while loop of showUnifiedDiff (75-89), one entry per
\* round: "=" and the line for a round that passes a line both have (and
\* prints nothing), "-" or "+" and the line for a round that prints
RECURSIVE editWalk(_, _, _, _, _)
editWalk(oldLines, newLines, lcs, i, j) ==
    LET oldSize == Len(oldLines)
        newSize == Len(newLines)
    IN  IF ~(i < oldSize \/ j < newSize) THEN <<>>
        ELSE IF i < oldSize /\ j < newSize /\ oldLines[i + 1] = newLines[j + 1]
        THEN << <<"=">> \o oldLines[i + 1] >>
             \o editWalk(oldLines, newLines, lcs, i + 1, j + 1)
        ELSE IF i < oldSize /\ (j >= newSize \/ lcs[i, j + 1] >= lcs[i + 1, j])
        THEN << <<"-">> \o oldLines[i + 1] >>
             \o editWalk(oldLines, newLines, lcs, i + 1, j)
        ELSE << <<"+">> \o newLines[j + 1] >>
             \o editWalk(oldLines, newLines, lcs, i, j + 1)

\* every line of lines is printed
RECURSIVE sayAll(_, _)
sayAll(s, lines) ==
    IF lines = <<>> THEN s ELSE sayAll(say(s, Head(lines)), Tail(lines))

showUnifiedDiff(s, filename, oldContent, newContent) ==
    LET oldLines == splitLines(oldContent)
        newLines == splitLines(newContent)
        s1 == say(s, <<"diff --git a/">> \o filename \o <<" b/">> \o filename)
        s2 == say(s1, <<"--- a/">> \o filename)
        s3 == say(s2, <<"+++ b/">> \o filename)
        lcs == computeLCS(oldLines, newLines)
        s4 == sayAll(s3, editScript(oldLines, newLines, lcs, 0, 0))
    IN  IF oldLines = newLines THEN s ELSE say(s4, EmptyStr)

\* the loop of showWorkingDiff over the staged files; d is the record of
\* the state and hasDiffs
RECURSIVE workingDiffs(_, _)
workingDiffs(d, files) ==
    IF files = <<>> THEN d
    ELSE LET filename == Head(files)
             currentContent == readFromFile(d.s, filename)
             stagedContent == readObject(d.s, computeHash(currentContent))
             next ==
                 IF filename \notin DOMAIN d.s.workTree
                 THEN [s |-> say(say(d.s, <<"File deleted: ">> \o filename), EmptyStr),
                       hasDiffs |-> TRUE]
                 ELSE IF currentContent # stagedContent
                 THEN [s |-> showUnifiedDiff(d.s, filename, stagedContent,
                                             currentContent),
                       hasDiffs |-> TRUE]
                 ELSE d
         IN  workingDiffs(next, Tail(files))

showWorkingDiff(s) ==
    LET s1 == loadStagedFiles(s)
        d == workingDiffs([s |-> s1, hasDiffs |-> FALSE],
                          Sorted(s1.stagedFiles, PathOrder))
    IN  IF d.hasDiffs THEN d.s
        ELSE say(d.s, <<"No differences between staged files and working directory.">>)

\* showStagedDiff before the first commit: every staged file as new (128-140)
RECURSIVE stagedAsNew(_, _)
stagedAsNew(s, files) ==
    IF files = <<>> THEN s
    ELSE LET filename == Head(files)
             lines == splitLines(readFromFile(s, filename))
             s1 == say(s, <<"new file: ">> \o filename)
             s2 == sayAll(s1, [i \in 1..Len(lines) |-> <<"+">> \o lines[i]])
         IN  stagedAsNew(say(s2, EmptyStr), Tail(files))

\* the loop of showStagedDiff over the staged files (152-167)
RECURSIVE stagedDiffs(_, _, _)
stagedDiffs(d, files, committedFiles) ==
    IF files = <<>> THEN d
    ELSE LET filename == Head(files)
             currentContent == readFromFile(d.s, filename)
             oldContent == IF filename \in DOMAIN committedFiles
                           THEN readObject(d.s, committedFiles[filename])
                           ELSE EmptyStr
             s1 == IF oldContent = EmptyStr
                   THEN say(d.s, <<"new file: ">> \o filename)
                   ELSE d.s
             next == IF currentContent # oldContent
                     THEN [s |-> showUnifiedDiff(s1, filename, oldContent,
                                                 currentContent),
                           hasDiffs |-> TRUE]
                     ELSE d
         IN  stagedDiffs(next, Tail(files), committedFiles)

showStagedDiff(s) ==
    LET s1 == loadStagedFiles(s)
        headHash == getHEAD(s1)
        files == Sorted(s1.stagedFiles, PathOrder)
        d == stagedDiffs([s |-> s1, hasDiffs |-> FALSE], files,
                         fileMap(loadCommit(s1, headHash)))
    IN  IF headHash = EmptyStr
        THEN stagedAsNew(say(s1, <<"No commits yet. Showing staged files:">>), files)
        ELSE IF d.hasDiffs THEN d.s
        ELSE say(d.s, <<"No differences between staged files and last commit.">>)

\* a loop over the files of two sides (showCommitDiff 201-214, diff 253-268):
\* each file whose two contents differ is announced and diffed
RECURSIVE sideDiffs(_, _, _, _)
sideDiffs(d, files, oldOf, newOf) ==
    IF files = <<>> THEN d
    ELSE LET filename == Head(files)
             content1 == oldOf[filename]
             content2 == newOf[filename]
             s1 == IF content1 = EmptyStr
                   THEN say(d.s, <<"new file: ">> \o filename)
                   ELSE IF content2 = EmptyStr
                   THEN say(d.s, <<"deleted file: ">> \o filename)
                   ELSE d.s
             next == IF content1 # content2
                     THEN [s |-> showUnifiedDiff(s1, filename, content1, content2),
                           hasDiffs |-> TRUE]
                     ELSE d
         IN  sideDiffs(next, Tail(files), oldOf, newOf)

\* the content of each of the files under the blob map of a commit
blobContents(s, allFiles, files) ==
    [f \in allFiles |-> IF f \in DOMAIN files THEN readObject(s, files[f])
                        ELSE EmptyStr]

showCommitDiff(s, commit1, commit2) ==
    LET files1 == fileMap(loadCommit(s, commit1))
        files2 == fileMap(loadCommit(s, commit2))
        allFiles == DOMAIN files1 \cup DOMAIN files2
        d == sideDiffs([s |-> s, hasDiffs |-> FALSE], Sorted(allFiles, PathOrder),
                       blobContents(s, allFiles, files1),
                       blobContents(s, allFiles, files2))
    IN  IF commit1 = EmptyStr \/ commit2 = EmptyStr
        THEN say(s, <<"Error: Invalid commit hashes provided.">>)
        ELSE IF d.hasDiffs THEN d.s
        ELSE say(d.s, <<"No differences between the commits.">>)

\* diff with one commit: the working directory against the commit (235-273)
showCommitToWorking(s, option1) ==
    LET s1 == loadStagedFiles(s)
        commitFiles == getCommitFiles(s1, option1)
        allFiles == DOMAIN s1.workTree \cup DOMAIN commitFiles
        d == sideDiffs([s |-> s1, hasDiffs |-> FALSE], Sorted(allFiles, PathOrder),
                       blobContents(s1, allFiles, commitFiles),
                       [f \in allFiles |-> readFromFile(s1, f)])
    IN  IF d.hasDiffs THEN d.s ELSE say(d.s, <<"No differences found.">>)

\* the header shows the first 8 characters of an option: here the option
diff(s, option1, option2) ==
    IF option1 = EmptyStr
    THEN showWorkingDiff(say(s, <<"=== Working Directory vs Staged ===">>))
    ELSE IF option1 \in {<<"--staged">>, <<"--cached">>}
    THEN showStagedDiff(say(s, <<"=== Staged vs Last Commit ===">>))
    ELSE IF option2 # EmptyStr
    THEN showCommitDiff(say(s, <<"=== Commit ">> \o option1 \o <<" vs ">>
                                \o option2 \o <<" ===">>),
                        option1, option2)
    ELSE showCommitToWorking(say(s, <<"=== Working Directory vs Commit ">>
                                     \o option1 \o <<" ===">>),
                             option1)

----------------------------------------------------------------------------
(* status (MiniGit.cpp 277-373).  The headings are printed as the program  *)
(* prints them, a listed file as the indentation followed by the name.     *)

\* the last commit lists the file (310-316)
isTracked(s, filename) ==
    /\ getHEAD(s) # EmptyStr
    /\ filename \in Range(loadCommit(s, getHEAD(s)).filenames)

\* the working file differs from the blob the last commit lists first for
\* it (318-326)
differsFromCommitted(s, filename) ==
    LET lastCommit == loadCommit(s, getHEAD(s))
        index == CHOOSE i \in 1..Len(lastCommit.filenames) :
                     /\ lastCommit.filenames[i] = filename
                     /\ \A j \in 1..(i - 1) : lastCommit.filenames[j] # filename
    IN  readFromFile(s, filename) # readObject(s, lastCommit.blobHashes[index])

\* the set modifiedFiles with the staged files taken as never modified
modifiedFilesUnstagedOnly(s) ==
    {filename \in DOMAIN s.workTree :
        /\ filename \notin s.stagedFiles
        /\ isTracked(s, filename) /\ differsFromCommitted(s, filename)}

\* the set modifiedFiles at the end of the loop over the working directory
\* (294-337): a staged file is compared with the object stored under the
\* hash of its own current content, another file with the last commit
modifiedFiles(s) ==
    {filename \in DOMAIN s.workTree :
        IF filename \in s.stagedFiles
        THEN LET currentContent == readFromFile(s, filename)
                 currentHash == computeHash(currentContent)
                 stagedContent == readObject(s, currentHash)
             IN  currentContent # stagedContent
        ELSE isTracked(s, filename) /\ differsFromCommitted(s, filename)}

\* the set untrackedFiles at the end of the loop
untrackedFiles(s) ==
    {filename \in DOMAIN s.workTree :
        filename \notin s.stagedFiles /\ ~isTracked(s, filename)}

\* a heading, the files of the set in the order of std::set, an empty line;
\* nothing for an empty set
RECURSIVE listed(_, _)
listed(indent, files) ==
    IF files = <<>> THEN <<>>
    ELSE << indent \o Head(files) >> \o listed(indent, Tail(files))

section(heading, indent, files) ==
    IF files = {} THEN <<>>
    ELSE <<heading>> \o listed(indent, Sorted(files, PathOrder)) \o <<EmptyStr>>

status(s) ==
    LET s1 == loadStagedFiles(loadBranches(s))
        s2 == say(s1, <<"On branch ">> \o s1.currentBranch)
        s3 == IF s2.mergeHead # {}
              THEN say(s2, <<"You are in the middle of a merge.">>)
              ELSE s2
        modified == modifiedFiles(s3)
        untracked == untrackedFiles(s3)
        s4 == sayAll(s3, section(<<"Changes to be committed:">>,
                                 <<"  modified:   ">>, s3.stagedFiles)
                         \o section(<<"Changes not staged for commit:">>,
                                    <<"  modified:   ">>, modified)
                         \o section(<<"Untracked files:">>, <<"  ">>, untracked))
    IN  IF s3.stagedFiles = {} /\ modified = {} /\ untracked = {}
        THEN say(s4, <<"Working tree clean">>)
        ELSE s4

----------------------------------------------------------------------------
(* The state machine: one command of main.cpp's dispatcher per step, and   *)
(* the user's edits of the working directory.                              *)
(*                                                                         *)
(* MiniGit::stagedFiles and MiniGit::branches are fields of the record a   *)
(* command works on, not variables: every command reloads them from disk   *)
(* (loadStagedFiles, loadBranches) before it reads them, so the values     *)
(* they hold between two commands are never read.                          *)

\* an empty directory and a process that has just started (MiniGit.h 23-32)
EmptyDir ==
    [repoExists |-> FALSE, headFile |-> EmptyStr, branchesFile |-> EmptyStr,
     indexFile |-> EmptyStr, mergeHead |-> {}, objects |-> EmptyMap,
     workTree |-> EmptyMap, stagedFiles |-> {}, branches |-> EmptyMap,
     currentBranch |-> <<"master">>, clock |-> 0, out |-> <<>>]

\* the state left by: init; a := "hello"; add a; commit m
Scenario1 ==
    commit(add(writeToFile(init(EmptyDir), <<"a">>, <<"hello", NL>>), <<"a">>),
           <<"m">>)

\* the state left by, from Scenario1: branch feat; a := "X"; add a; commit m;
\* checkout feat; a := "Y"; add a; commit m; checkout master
Scenario5 ==
    LET s1 == branch(Scenario1, <<"feat">>)
        s2 == commit(add(writeToFile(s1, <<"a">>, <<"X", NL>>), <<"a">>), <<"m">>)
        s3 == checkout(s2, <<"feat">>)
        s4 == commit(add(writeToFile(s3, <<"a">>, <<"Y", NL>>), <<"a">>), <<"m">>)
    IN  checkout(s4, <<"master">>)

\* the states a run starts in: the empty directory, or what a scenario left
Seeds == {EmptyDir, Scenario1, Scenario5}

\* add f1; add f2; commit m
commitBoth(s, f1, f2) == commit(add(add(s, f1), f2), <<"m">>)

\* the state left by, from Scenario1: branch feat; b := cb; add b; commit m;
\* checkout feat; c := cc; add c; commit m; checkout master
Scenario4(cb, cc) ==
    LET s1 == branch(Scenario1, <<"feat">>)
        s2 == commit(add(writeToFile(s1, <<"b">>, cb), <<"b">>), <<"m">>)
        s3 == checkout(s2, <<"feat">>)
        s4 == commit(add(writeToFile(s3, <<"c">>, cc), <<"c">>), <<"m">>)
    IN  checkout(s4, <<"master">>)

\* the state left by: init; a := "hello"; b := "world"; add a; add b;
\* commit m; branch feat
TwoFiles ==
    LET s1 == writeToFile(init(EmptyDir), <<"a">>, <<"hello", NL>>)
        s2 == writeToFile(s1, <<"b">>, <<"world", NL>>)
    IN  branch(commitBoth(s2, <<"a">>, <<"b">>), <<"feat">>)

\* the state left by, from TwoFiles: a := "X"; add a; add b; commit m;
\* checkout feat; b := "Y"; add a; add b; commit m; checkout master
EachSideOneFile ==
    LET s1 == commitBoth(writeToFile(TwoFiles, <<"a">>, <<"X", NL>>),
                         <<"a">>, <<"b">>)
        s2 == checkout(s1, <<"feat">>)
        s3 == commitBoth(writeToFile(s2, <<"b">>, <<"Y", NL>>), <<"a">>, <<"b">>)
    IN  checkout(s3, <<"master">>)

\* the state left by, from TwoFiles: add a; commit m; checkout feat; add b;
\* commit m; checkout master
EachSideDropsOne ==
    LET s1 == commit(add(TwoFiles, <<"a">>), <<"m">>)
        s2 == checkout(s1, <<"feat">>)
        s3 == commit(add(s2, <<"b">>), <<"m">>)
    IN  checkout(s3, <<"master">>)

\* the state left by, from Scenario1: branch dev; branch feat; checkout dev;
\* a := "X"; add a; commit m; checkout feat; a := "Y"; add a; commit m;
\* checkout dev
ThreeBranches ==
    LET s1 == checkout(branch(branch(Scenario1, <<"dev">>), <<"feat">>), <<"dev">>)
        s2 == commit(add(writeToFile(s1, <<"a">>, <<"X", NL>>), <<"a">>), <<"m">>)
        s3 == checkout(s2, <<"feat">>)
        s4 == commit(add(writeToFile(s3, <<"a">>, <<"Y", NL>>), <<"a">>), <<"m">>)
    IN  checkout(s4, <<"dev">>)

\* the state left by: init; branch feat; a := "X"; add a; commit m;
\* checkout feat; a := "Y"; add a; commit m; checkout master
Unrelated ==
    LET s1 == branch(init(EmptyDir), <<"feat">>)
        s2 == commit(add(writeToFile(s1, <<"a">>, <<"X", NL>>), <<"a">>), <<"m">>)
        s3 == checkout(s2, <<"feat">>)
        s4 == commit(add(writeToFile(s3, <<"a">>, <<"Y", NL>>), <<"a">>), <<"m">>)
    IN  checkout(s4, <<"master">>)

\* the state left by, from Scenario1: branch feat; a := "X"; add a; commit m;
\* checkout feat; b := "Y"; add b; commit m; checkout master
ChangedAndDropped ==
    LET s1 == branch(Scenario1, <<"feat">>)
        s2 == commit(add(writeToFile(s1, <<"a">>, <<"X", NL>>), <<"a">>), <<"m">>)
        s3 == checkout(s2, <<"feat">>)
        s4 == commit(add(writeToFile(s3, <<"b">>, <<"Y", NL>>), <<"b">>), <<"m">>)
    IN  checkout(s4, <<"master">>)

\* the state left by, from Scenario1: branch feat; b := "X"; add a; add b;
\* commit m; checkout feat; b := "X"; add b; commit m; checkout master
SameAddition ==
    LET s1 == branch(Scenario1, <<"feat">>)
        s2 == commitBoth(writeToFile(s1, <<"b">>, <<"X", NL>>), <<"a">>, <<"b">>)
        s3 == checkout(s2, <<"feat">>)
        s4 == commit(add(writeToFile(s3, <<"b">>, <<"X", NL>>), <<"b">>), <<"m">>)
    IN  checkout(s4, <<"master">>)

\* the state left by: init; "a,b" := "X"; add "a,b"
CommaInName ==
    LET name == <<"a", ",", "b">>
    IN  add(writeToFile(init(EmptyDir), name, <<"X", NL>>), name)

CommaSeeds == {EmptyDir, CommaInName}

\* the state left by: init; a := "X" "Y" (two lines); add a; commit m
TwoLines ==
    commit(add(writeToFile(init(EmptyDir), <<"a">>, <<"X", NL, "Y", NL>>), <<"a">>),
           <<"m">>)

DiffSeeds == {EmptyDir, TwoLines}
BranchSeeds == {EmptyDir, Scenario1}

\* states in which the branches have diverged without a conflict
ThreeWaySeeds == {EmptyDir, EachSideOneFile, EachSideDropsOne}
Scenario4Seeds == {EmptyDir} \cup {Scenario4(cb, cc) : cb, cc \in Contents}

\* states in which the branches have diverged with a conflict, or have no
\* common commit
ConflictSeeds == {EmptyDir, Scenario5, Unrelated}
ThreeBranchSeeds == {EmptyDir, ThreeBranches}

\* states in which a path is changed on one side and dropped on the other,
\* dropped on both sides, added with one content on both sides, or changed
\* on both sides
CaseSeeds ==
    {EmptyDir, ChangedAndDropped, SameAddition, Scenario5,
     Scenario4(<<"X", NL>>, <<"Y", NL>>)}

\* the state a command starts in, the clock reading t
State(t) ==
    [repoExists |-> repoExists, headFile |-> headFile,
     branchesFile |-> branchesFile, indexFile |-> indexFile,
     mergeHead |-> mergeHead, objects |-> objects, workTree |-> workTree,
     stagedFiles |-> {}, branches |-> EmptyMap,
     currentBranch |-> currentBranch, clock |-> t, out |-> <<>>]

\* the seconds a command that starts now may read from the clock
Times == {t \in Seconds : t >= clock}

\* the command has stored a commit
Committed(t) == \E i \in 1..Len(t.out) : t.out[i] = <<"Committed changes.">>

Quiet == [op |-> "", arg |-> EmptyStr, out |-> <<>>]

\* the step that runs one command: t is the state record the command
\* returns; the step is recorded in last when the command is observed
Run(op, arg, t, observed) ==
    /\ Committed(t) => spent < MaxSteps
    /\ spent' = IF Committed(t) THEN spent + 1 ELSE spent
    /\ repoExists' = t.repoExists
    /\ headFile' = t.headFile
    /\ branchesFile' = t.branchesFile
    /\ indexFile' = t.indexFile
    /\ mergeHead' = t.mergeHead
    /\ objects' = t.objects
    /\ workTree' = t.workTree
    /\ currentBranch' = t.currentBranch
    /\ clock' = t.clock
    /\ last' = IF op \in observed
               THEN [op |-> op, arg |-> arg, out |-> t.out]
               ELSE Quiet

\* a run starts in the state seed, used steps of its MaxSteps already spent
StartAfter(seed, used) ==
    /\ repoExists = seed.repoExists
    /\ headFile = seed.headFile
    /\ branchesFile = seed.branchesFile
    /\ indexFile = seed.indexFile
    /\ mergeHead = seed.mergeHead
    /\ objects = seed.objects
    /\ workTree = seed.workTree
    /\ currentBranch = seed.currentBranch
    /\ clock = seed.clock
    /\ spent = used
    /\ last = Quiet

StartIn(seed) == StartAfter(seed, 0)

Init == \E seed \in Seeds : StartIn(seed)

\* a run that starts from a scenario with more than one commit, or with more
\* than one line in a file, has one step less
StartDiverged(seed) == StartAfter(seed, IF seed = EmptyDir THEN 0 ELSE 1)

InitThreeWay == \E seed \in ThreeWaySeeds : StartDiverged(seed)
InitScenario4 == \E seed \in Scenario4Seeds : StartDiverged(seed)
InitConflict == \E seed \in ConflictSeeds : StartDiverged(seed)
InitThreeBranches == \E seed \in ThreeBranchSeeds : StartIn(seed)
InitComma == \E seed \in CommaSeeds : StartIn(seed)
InitDiff == \E seed \in DiffSeeds : StartDiverged(seed)
InitBranch == \E seed \in BranchSeeds : StartIn(seed)
InitCases == \E seed \in CaseSeeds : StartDiverged(seed)

DoInit(observed) == Run("init", EmptyStr, init(State(clock)), observed)
DoAdd(observed) ==
    \E f \in Paths : Run("add", f, add(State(clock), f), observed)
DoCommit(observed) ==
    \E msg \in Messages, t \in Times :
        Run("commit", msg, commit(State(t), msg), observed)
DoBranch(observed) ==
    \E b \in BranchNames : Run("branch", b, branch(State(clock), b), observed)
DoCheckout(observed) ==
    \E b \in BranchNames : Run("checkout", b, checkout(State(clock), b), observed)
DoMerge(observed) ==
    \E b \in BranchNames, t \in Times :
        Run("merge", b, merge(State(t), b), observed)

\* the user writes or deletes a file of the working directory
UserWrite ==
    \E f \in Paths, c \in Contents :
        /\ spent < MaxSteps
        /\ spent' = spent + 1
        /\ workTree' = (f :> c) @@ workTree
        /\ last' = Quiet
        /\ UNCHANGED <<repoExists, headFile, branchesFile, indexFile, mergeHead,
                       objects, currentBranch, clock>>

UserRemove ==
    \E f \in DOMAIN workTree :
        /\ spent < MaxSteps
        /\ spent' = spent + 1
        /\ workTree' = [p \in (DOMAIN workTree) \ {f} |-> workTree[p]]
        /\ last' = Quiet
        /\ UNCHANGED <<repoExists, headFile, branchesFile, indexFile, mergeHead,
                       objects, currentBranch, clock>>

\* the lines the user inserts into a working file
InsertedLines == { <<"X">>, <<"Y">> }

\* the text of the lines, each ended by a newline
RECURSIVE joinLines(_)
joinLines(lines) ==
    IF lines = <<>> THEN EmptyStr
    ELSE Head(lines) \o <<NL>> \o joinLines(Tail(lines))

\* lines with line inserted after the first pos of them
insertLine(lines, pos, line) ==
    SubSeq(lines, 1, pos) \o <<line>> \o SubSeq(lines, pos + 1, Len(lines))

\* the user inserts one line into a working file, at any position
UserInsertLine ==
    \E f \in DOMAIN workTree, line \in InsertedLines :
        \E pos \in 0..Len(splitLines(workTree[f])) :
            /\ spent < MaxSteps
            /\ spent' = spent + 1
            /\ workTree' = (f :> joinLines(insertLine(splitLines(workTree[f]),
                                                      pos, line))) @@ workTree
            /\ last' = Quiet
            /\ UNCHANGED <<repoExists, headFile, branchesFile, indexFile,
                           mergeHead, objects, currentBranch, clock>>

\* what the user gives diff for a commit: the tip of a branch, or a hash
\* under which nothing is stored
DiffCommits ==
    (Range(loadBranches(State(clock)).branches) \ {EmptyStr}) \cup {<<"deadbeef">>}
DiffOptions == {<<"--staged">>} \cup DiffCommits

\* diff, diff <option1>, diff <option1> <option2>
DoDiff(observed) ==
    \/ Run("diff", EmptyStr, diff(State(clock), EmptyStr, EmptyStr), observed)
    \/ \E option1 \in DiffOptions :
           Run("diff", option1, diff(State(clock), option1, EmptyStr), observed)
    \/ \E option1 \in DiffOptions, option2 \in DiffCommits :
           Run("diff", option1 \o <<" ">> \o option2,
               diff(State(clock), option1, option2), observed)

DoStatus(observed) ==
    Run("status", EmptyStr, status(State(clock)), observed)

\* a new process is started on the same directory: main constructs a MiniGit
Restart ==
    /\ currentBranch' = <<"master">>
    /\ last' = Quiet
    /\ UNCHANGED <<repoExists, headFile, branchesFile, indexFile, mergeHead,
                   objects, workTree, clock, spent>>

Command(observed) ==
    \/ DoInit(observed) \/ DoAdd(observed) \/ DoCommit(observed)
    \/ DoBranch(observed) \/ DoCheckout(observed) \/ DoMerge(observed)

\* one process (the interactive mode of main.cpp)
Next(observed) == Command(observed) \/ UserWrite \/ UserRemove

\* any number of processes, one after the other (the command-line mode)
NextCli(observed) == Next(observed) \/ Restart

\* one process, with diff among its commands and lines inserted by the user
NextDiff(observed) == Next(observed) \/ DoDiff(observed) \/ UserInsertLine

\* one process, with status among its commands
NextStatus(observed) == Next(observed) \/ DoStatus(observed)

Spec == Init /\ [][Next({"commit", "merge"})]_vars

SpecCommit == Init /\ [][NextCli({"commit"})]_vars
SpecCheckout == Init /\ [][NextCli({"checkout"})]_vars
SpecMerge == Init /\ [][NextCli({"merge"})]_vars
SpecThreeWay == InitThreeWay /\ [][Next({"merge"})]_vars
SpecScenario4 == InitScenario4 /\ [][NextCli({"merge"})]_vars
SpecConflict == InitConflict /\ [][NextCli({"merge"})]_vars
SpecThreeBranches == InitThreeBranches /\ [][NextCli({"commit", "merge"})]_vars
SpecComma == InitComma /\ [][NextCli({"commit"})]_vars
SpecDiff == InitDiff /\ [][NextDiff({"diff"})]_vars
SpecBranch == InitBranch /\ [][NextCli({"branch"})]_vars
SpecCases == InitCases /\ [][NextCli({"merge"})]_vars
SpecStatus == Init /\ [][NextStatus({"status"})]_vars

----------------------------------------------------------------------------
(* What the properties below read from a state.                            *)

\* the repository a command issued now works on
Now == State(clock)

\* the branch map and the index as they are on disk
Refs(s) == loadBranches(s).branches
Index(s) == loadStagedFiles(s).stagedFiles

\* the branch HEAD names: the text of .minigit/HEAD before the colon
HeadBranch(s) ==
    LET content == RTrim(s.headFile)
        colon == Find(content, ":")
    IN  IF colon # 0 THEN SubSeq(content, 1, colon - 1) ELSE EmptyStr

\* the repository and the working directory of t are those of s
SameDisk(s, t) ==
    /\ t.repoExists = s.repoExists
    /\ t.headFile = s.headFile
    /\ t.branchesFile = s.branchesFile
    /\ t.indexFile = s.indexFile
    /\ t.mergeHead = s.mergeHead
    /\ t.objects = s.objects
    /\ t.workTree = s.workTree

\* t prints exactly the one line
Says(t, line) == t.out = <<line>>

\* the last logged command was op and printed exactly the one line
Did(op, line) == last.op = op /\ last.out = <<line>>

----------------------------------------------------------------------------
\* C1: between commands of one process, the commit HEAD records is the one
\* the branch map records for the current branch, and HEAD names that branch.
HeadIsCurrentBranchTip ==
    repoExists =>
        /\ HeadBranch(Now) = currentBranch
        /\ currentBranch \in DOMAIN Refs(Now)
        /\ getHEAD(Now) = Refs(Now)[currentBranch]

\* a fast-forward has just moved HEAD and the current branch to a commit
HeadMovedByFastForward ==
    /\ Did("merge", <<"Fast-forward merge completed.">>)
    /\ getHEAD(Now) # EmptyStr

----------------------------------------------------------------------------
\* C2: a successful commit stores exactly one new commit, whose parent is
\* the commit HEAD recorded before; HEAD and the pointer of the branch HEAD
\* is on become the new commit, every other branch pointer stays, and the
\* index is left empty.
CommitAdvancesCurrentBranch ==
    \A message \in Messages, t \in Times :
        LET s == State(t)
            r == commit(s, message)
            new == getHEAD(r)
            stored == DOMAIN r.objects \ DOMAIN s.objects
            cur == HeadBranch(s)
        IN  Committed(r) =>
                /\ new \in stored
                /\ stored \ {new} \subseteq Range(loadCommit(r, new).blobHashes)
                /\ loadCommit(r, new).parent = getHEAD(s)
                /\ HeadBranch(r) = cur
                /\ DOMAIN Refs(r) = DOMAIN Refs(s)
                /\ Refs(r)[cur] = new
                /\ \A b \in DOMAIN Refs(s) \ {cur} : Refs(r)[b] = Refs(s)[b]
                /\ Index(r) = {}

\* C3: the file list of the commit produced is the index at commit time
\* restricted to the paths that exist in the working directory.
CommitSkipsVanishedPaths ==
    \A message \in Messages, t \in Times :
        LET s == State(t)
            r == commit(s, message)
        IN  Committed(r) =>
                Range(loadCommit(r, getHEAD(r)).filenames)
                    = Index(s) \cap DOMAIN s.workTree

\* C4: commit with an empty index prints that there is nothing to commit
\* and changes nothing on disk, MERGE_HEAD included.
EmptyIndexCommitChangesNothing ==
    \A message \in Messages, t \in Times :
        LET s == State(t)
            r == commit(s, message)
        IN  Index(s) = {} =>
                /\ Says(r, <<"No changes to commit.">>)
                /\ SameDisk(s, r)

\* a commit was refused for its empty index while a conflicted merge was
\* pending, and MERGE_HEAD is still there
EmptyCommitKeptMergeHead ==
    /\ Did("commit", <<"No changes to commit.">>)
    /\ mergeHead # {}

----------------------------------------------------------------------------
\* the last line of out is line; line is one of the lines of out
EndsWith(out, line) == out # <<>> /\ out[Len(out)] = line
Printed(out, line) == \E i \in 1..Len(out) : out[i] = line

\* C5: after a successful checkout every path of the target commit holds
\* the content of its blob, and every path of the commit HEAD recorded
\* before that the target lacks is absent from the working directory.
CheckoutMaterialisesTarget ==
    \A target \in BranchNames :
        LET s == Now
            r == checkout(s, target)
            from == getCommitFiles(s, getHEAD(s))
            to == getCommitFiles(s, Refs(s)[target])
        IN  EndsWith(r.out, <<"Switched to branch.">>) =>
                /\ \A p \in DOMAIN to :
                       /\ to[p] \in DOMAIN s.objects
                       /\ p \in DOMAIN r.workTree
                       /\ r.workTree[p] = s.objects[to[p]]
                /\ \A p \in DOMAIN from \ DOMAIN to : p \notin DOMAIN r.workTree

\* a checkout has just left a branch whose commit has a and b for one whose
\* commit has a alone: it has removed b and written a
CheckoutRemovedAndUpdated ==
    /\ last.op = "checkout"
    /\ \E b \in DOMAIN Refs(Now) :
           DOMAIN getCommitFiles(Now, Refs(Now)[b]) = {<<"a">>, <<"b">>}
    /\ DOMAIN getCommitFiles(Now, getHEAD(Now)) = {<<"a">>}
    /\ EndsWith(last.out, <<"Switched to branch.">>)
    /\ Printed(last.out, <<"Removed: ", "b">>)
    /\ Printed(last.out, <<"Updated: ", "a">>)
    /\ <<"b">> \notin DOMAIN workTree
    /\ <<"a">> \in DOMAIN workTree

\* C6: checkout is refused for a non-empty index, and for a target that is
\* no branch; both refusals leave the disk and the current branch alone.
CheckoutRefusalsChangeNothing ==
    \A target \in BranchNames :
        LET s == Now
            r == checkout(s, target)
        IN  /\ Index(s) # {} =>
                /\ Says(r, <<"Cannot checkout: you have uncommitted changes.">>)
                /\ SameDisk(s, r)
                /\ r.currentBranch = s.currentBranch
            /\ Index(s) = {} /\ target \notin DOMAIN Refs(s) =>
                /\ Says(r, <<"Branch does not exist.">>)
                /\ SameDisk(s, r)
                /\ r.currentBranch = s.currentBranch

\* a checkout of an existing other branch has just been refused for the
\* staged file
CheckoutRefusedForIndex ==
    /\ Did("checkout", <<"Cannot checkout: you have uncommitted changes.">>)
    /\ last.arg \in DOMAIN Refs(Now)
    /\ last.arg # HeadBranch(Now)
    /\ Index(Now) # {}

----------------------------------------------------------------------------
(* merge(name) in the words of the claims: ours is the commit of HEAD,     *)
(* theirs the pointer of the branch name.                                  *)

Ours(s) == getHEAD(s)
Theirs(s, name) == Refs(s)[name]

\* hash is first or is reached from first along parent links
Reaches(s, first, hash) == hash \in ancestorsOf(s, first, WalkLimit(s))

MergeRefusals ==
    {<<"Branch does not exist.">>, <<"Cannot merge a branch with itself.">>,
     <<"Uncommitted changes detected.">>}

NothingToMerge ==
    {<<"Nothing to merge: both branches are empty.">>,
     <<"Target branch is empty. Nothing to merge.">>}

UpToDate == <<"Already up to date. Nothing to merge.">>

FastForwards ==
    {<<"Fast-forward merge completed (current was empty).">>,
     <<"Fast-forward merge completed.">>}

\* C7: merge is refused, with nothing changed, for a name that is no branch,
\* for the branch HEAD is on, and for a non-empty index; any other existing
\* branch with an empty index is not refused as a merge with itself.
MergeGuards ==
    \A name \in BranchNames, t \in Times :
        LET s == State(t)
            r == merge(s, name)
            known == name \in DOMAIN Refs(s)
            self == name = HeadBranch(s)
        IN  repoExists =>
                /\ ~known => Says(r, <<"Branch does not exist.">>) /\ SameDisk(s, r)
                /\ known /\ self =>
                       /\ Says(r, <<"Cannot merge a branch with itself.">>)
                       /\ SameDisk(s, r)
                /\ known /\ ~self /\ Index(s) # {} =>
                       /\ Says(r, <<"Uncommitted changes detected.">>)
                       /\ SameDisk(s, r)
                /\ known /\ ~self /\ Index(s) = {} =>
                       ~Says(r, <<"Cannot merge a branch with itself.">>)

\* C8: a merge that ends as nothing to merge or as already up to date
\* changes nothing; a merge that passes the guards ends so when theirs is
\* empty, and when theirs is ours or an ancestor of ours.
BenignMergeChangesNothing ==
    \A name \in BranchNames, t \in Times :
        LET s == State(t)
            r == merge(s, name)
            passed == name \in DOMAIN Refs(s) /\ r.out \notin {<<l>> : l \in MergeRefusals}
        IN  /\ r.out \in {<<l>> : l \in NothingToMerge \cup {UpToDate}} =>
                /\ SameDisk(s, r)
                /\ r.currentBranch = s.currentBranch
            /\ passed /\ Theirs(s, name) = EmptyStr =>
                r.out \in {<<l>> : l \in NothingToMerge}
            /\ passed /\ Theirs(s, name) # EmptyStr
                      /\ Reaches(s, Ours(s), Theirs(s, name)) =>
                Says(r, UpToDate)

\* a merge of a branch whose tip is a proper ancestor of HEAD's commit has
\* just ended as already up to date
MergedAncestorUpToDate ==
    /\ Did("merge", UpToDate)
    /\ last.arg \in DOMAIN Refs(Now)
    /\ Theirs(Now, last.arg) # Ours(Now)
    /\ Reaches(Now, Ours(Now), Theirs(Now, last.arg))

\* C9: when ours is empty or a proper ancestor of theirs, merge moves HEAD
\* and the pointer of the branch HEAD is on to theirs, leaves the pointer of
\* the merged branch, adds no object, leaves the index empty and creates no
\* MERGE_HEAD.
FastForwardMovesCurrentBranch ==
    \A name \in BranchNames, t \in Times :
        LET s == State(t)
            r == merge(s, name)
            cur == HeadBranch(s)
            ours == Ours(s)
            theirs == Theirs(s, name)
        IN  (/\ repoExists
             /\ name \in DOMAIN Refs(s)
             /\ cur \in DOMAIN Refs(s)
             /\ name # cur
             /\ Index(s) = {}
             /\ theirs # EmptyStr
             /\ ours = EmptyStr \/ (ours # theirs /\ Reaches(s, theirs, ours)))
            => /\ r.out \in {<<l>> : l \in FastForwards}
               /\ getHEAD(r) = theirs
               /\ HeadBranch(r) = cur
               /\ Refs(r)[cur] = theirs
               /\ Refs(r)[name] = theirs
               /\ r.objects = s.objects
               /\ Index(r) = {}
               /\ r.mergeHead \subseteq s.mergeHead

\* C10: after a fast-forward every path of theirs' commit holds the content
\* of its blob, and every path of the commit HEAD recorded before that
\* theirs' commit lacks is absent from the working directory.
FastForwardReconcilesWorkTree ==
    \A name \in BranchNames, t \in Times :
        LET s == State(t)
            r == merge(s, name)
            from == getCommitFiles(s, Ours(s))
            to == getCommitFiles(s, Theirs(s, name))
        IN  (name \in DOMAIN Refs(s) /\ r.out \in {<<l>> : l \in FastForwards}) =>
                /\ \A p \in DOMAIN to :
                       /\ p \in DOMAIN r.workTree
                       /\ r.workTree[p] = s.objects[to[p]]
                /\ \A p \in DOMAIN from \ DOMAIN to : p \notin DOMAIN r.workTree

----------------------------------------------------------------------------
(* The three-way merge in the words of the claims.                         *)

\* merge(name), with the result r, gets as far as the three-way merge: the
\* guards are passed, neither tip is reached from the other, and there is
\* a common ancestor
ThreeWay(s, r, name) ==
    /\ name \in DOMAIN Refs(s)
    /\ r.out \notin {<<l>> : l \in MergeRefusals}
    /\ Ours(s) # EmptyStr /\ Theirs(s, name) # EmptyStr
    /\ ~Reaches(s, Ours(s), Theirs(s, name))
    /\ ~Reaches(s, Theirs(s, name), Ours(s))
    /\ findCommonAncestor(s, Ours(s), Theirs(s, name)) # EmptyStr

\* what a three-way merge of name finds in s: ours, theirs, their nearest
\* common ancestor base, and the file maps B, O and T of the three commits
View(s, name) ==
    LET ours == Ours(s)
        theirs == Theirs(s, name)
        base == findCommonAncestor(s, ours, theirs)
    IN  [ours |-> ours, theirs |-> theirs, base |-> base,
         B |-> getCommitFiles(s, base),
         O |-> getCommitFiles(s, ours),
         T |-> getCommitFiles(s, theirs)]

\* the paths of base, ours and theirs
Involved(v) == DOMAIN v.B \cup DOMAIN v.O \cup DOMAIN v.T

\* a row of the decision table applies to the blobs B, O, T of a path (empty
\* for no blob); what the table decides
Decided(B, O, T) == O = T \/ B = T \/ B = O
Decision(B, O, T) == IF O = T \/ B = T THEN O ELSE T

\* what the table decides for the path p; the paths no row decides
Result(v, p) == Decision(hashIn(v.B, p), hashIn(v.O, p), hashIn(v.T, p))
Conflicted(v) ==
    {p \in Involved(v) : ~Decided(hashIn(v.B, p), hashIn(v.O, p), hashIn(v.T, p))}

\* the file map of the commit HEAD records
HeadFiles(s) == getCommitFiles(s, getHEAD(s))

\* C11: a three-way merge without a conflicted path completes, and the
\* file map of the commit it makes holds, for every path of base, ours and
\* theirs, what the decision table decides, a path with an empty result
\* being absent.
MergeCommitFollowsTable ==
    \A name \in BranchNames, t \in Times :
        LET s == State(t)
            r == merge(s, name)
            v == View(s, name)
            files == HeadFiles(r)
        IN  ThreeWay(s, r, name) /\ Conflicted(v) = {} =>
                /\ EndsWith(r.out, <<"Merge completed successfully.">>)
                /\ Committed(r) =>
                       /\ DOMAIN files = {p \in Involved(v) : Result(v, p) # EmptyStr}
                       /\ \A p \in DOMAIN files : files[p] = Result(v, p)

\* a merge has just kept ours' a, taken theirs' b and committed the two
MergedOneFromEachSide ==
    /\ last.op = "merge"
    /\ Printed(last.out, <<"Keep current: ", "a">>)
    /\ Printed(last.out, <<"Take target: ", "b">>)
    /\ Printed(last.out, <<"Committed changes.">>)
    /\ DOMAIN HeadFiles(Now) = {<<"a">>, <<"b">>}

\* C12: in the state scenario 4 leaves (the first commit tracks a, master
\* has then committed after staging b alone, feat after staging c alone,
\* master is checked out), merge feat makes a new commit whose file map is
\* {a, b, c}, leaves no MERGE_HEAD, and a, b and c are in the working
\* directory.
Scenario4MergeTracksAllThree ==
    \A cb \in Contents, cc \in Contents, t \in Times :
        LET s == State(t)
            r == merge(s, <<"feat">>)
            all == {<<"a">>, <<"b">>, <<"c">>}
        IN  SameDisk(Scenario4(cb, cc), s) /\ currentBranch = <<"master">> =>
                /\ Committed(r)
                /\ getHEAD(r) \notin DOMAIN s.objects
                /\ DOMAIN HeadFiles(r) = all
                /\ r.mergeHead = {}
                /\ all \subseteq DOMAIN r.workTree

\* C13: a three-way merge of name without a conflicted path stores exactly
\* one new commit, whose parent is ours and whose message is
\* "Merge branch 'name'"; HEAD and the pointer of the branch HEAD is on
\* become that commit, and the pointer of name stays.
CleanMergeMakesOneCommit ==
    \A name \in BranchNames, t \in Times :
        LET s == State(t)
            r == merge(s, name)
            v == View(s, name)
            new == getHEAD(r)
            cur == HeadBranch(s)
        IN  ThreeWay(s, r, name) /\ Conflicted(v) = {} =>
                /\ DOMAIN r.objects \ DOMAIN s.objects = {new}
                /\ loadCommit(r, new).parent = v.ours
                /\ loadCommit(r, new).message
                       = <<"Merge branch '">> \o name \o <<"'">>
                /\ HeadBranch(r) = cur
                /\ Refs(r)[cur] = new
                /\ Refs(r)[name] = v.theirs

----------------------------------------------------------------------------
\* the content of the blob hash, the empty string for no blob
ContentOf(s, hash) == IF hash = EmptyStr THEN EmptyStr ELSE s.objects[hash]

\* text occurs in file from position i on
At(file, i, text) ==
    i + Len(text) - 1 <= Len(file) /\ SubSeq(file, i, i + Len(text) - 1) = text

\* file begins with the line "<<<<<<< HEAD" and then holds ours, a line
\* "=======" and theirs, in this order
ConflictShape(file, ours, theirs) ==
    /\ At(file, 1, <<"<<<<<<< HEAD", NL>>)
    /\ \E i, k, j \in 3..(Len(file) + 1) :
           /\ At(file, i, ours)
           /\ i + Len(ours) <= k
           /\ At(file, k, <<NL, "=======", NL>>)
           /\ k + 3 <= j
           /\ At(file, j, theirs)

\* C14: a three-way merge with a conflicted path makes no commit: the
\* object store, HEAD and the branch map stay, MERGE_HEAD is present
\* afterwards, and every conflicted path holds ours' and theirs' content
\* between the conflict markers.
ConflictMakesNoCommit ==
    \A name \in BranchNames, t \in Times :
        LET s == State(t)
            r == merge(s, name)
            v == View(s, name)
        IN  ThreeWay(s, r, name) /\ Conflicted(v) # {} =>
                /\ EndsWith(r.out, <<"Merge conflicts detected.">>)
                /\ r.objects = s.objects
                /\ r.headFile = s.headFile
                /\ r.branchesFile = s.branchesFile
                /\ r.mergeHead # {}
                /\ \A p \in Conflicted(v) :
                       /\ p \in DOMAIN r.workTree
                       /\ ConflictShape(r.workTree[p],
                                         ContentOf(s, hashIn(v.O, p)),
                                         ContentOf(s, hashIn(v.T, p)))

\* a merge has just found a conflict in a and has left MERGE_HEAD
MergeLeftConflict ==
    /\ last.op = "merge"
    /\ Printed(last.out, <<"Conflict: ", "a">>)
    /\ EndsWith(last.out, <<"Merge conflicts detected.">>)
    /\ mergeHead # {}

\* C15: after a merge that ends in conflict, the index holds every path of
\* base, ours and theirs that exists in the working directory.
ConflictStagesInvolvedPaths ==
    \A name \in BranchNames, t \in Times :
        LET s == State(t)
            r == merge(s, name)
            v == View(s, name)
        IN  ThreeWay(s, r, name) /\ Conflicted(v) # {} =>
                {p \in Involved(v) : p \in DOMAIN r.workTree} \subseteq Index(r)

----------------------------------------------------------------------------
\* the ways a merge ends other than in a refusal or a conflict
MergeCompleted == <<"Merge completed successfully.">>
NoConflictEndings == FastForwards \cup NothingToMerge \cup {UpToDate, MergeCompleted}

\* C16: MERGE_HEAD is present exactly from a merge that ends in conflict
\* until the next successful commit: a conflicted merge leaves it, a
\* successful commit and a merge that ends as a fast-forward, as an early
\* exit or completed leave none, and no other step creates or removes it.
MergeHeadTracksConflict ==
    [][ LET done == last'
            merged == done.op = "merge" /\ done.out # <<>>
            conflict == merged /\ done.out[Len(done.out)] = <<"Merge conflicts detected.">>
            clean == merged /\ done.out[Len(done.out)] \in NoConflictEndings
            committed == done.op = "commit" /\ Committed(done)
        IN  /\ conflict => mergeHead' # {}
            /\ clean \/ committed => mergeHead' = {}
            /\ ~(conflict \/ clean \/ committed) => mergeHead' = mergeHead
      ]_vars

----------------------------------------------------------------------------
\* text occurs somewhere in file
Occurs(file, text) == \E i \in 1..(Len(file) + 1) : At(file, i, text)

\* C17: the MERGE_HEAD a conflicted merge writes holds the name of the branch
\* merged in, the commit HEAD recorded before the merge, and the tip of the
\* branch merged in.
MergeHeadRecordsAllThree ==
    \A name \in BranchNames, t \in Times :
        LET s == State(t)
            r == merge(s, name)
            v == View(s, name)
        IN  ThreeWay(s, r, name) /\ Conflicted(v) # {} =>
                /\ r.mergeHead # {}
                /\ \A content \in r.mergeHead :
                       /\ Occurs(content, name)
                       /\ Occurs(content, v.ours)
                       /\ Occurs(content, v.theirs)

\* the conflict-marked file with a newline added after a side only where the
\* side is non-empty and does not end in one
withNewline(content) ==
    IF content = EmptyStr \/ content[Len(content)] = NL THEN content
    ELSE content \o <<NL>>

normalized(ours, theirs, name) ==
    <<"<<<<<<< HEAD", NL>> \o withNewline(ours) \o <<"=======", NL>>
        \o withNewline(theirs) \o <<">>>>>>> ">> \o name \o <<NL>>

\* C18: the file a conflicted merge writes for a conflicted path is the
\* marker line "<<<<<<< HEAD", ours, the line "=======", theirs, the line
\* ">>>>>>> <name>", with no blank line after a side that ends in a newline
\* and no line at all for an empty side.
ConflictFileIsNormalized ==
    \A name \in BranchNames, t \in Times :
        LET s == State(t)
            r == merge(s, name)
            v == View(s, name)
        IN  ThreeWay(s, r, name) /\ Conflicted(v) # {} =>
                \A p \in Conflicted(v) :
                    /\ p \in DOMAIN r.workTree
                    /\ r.workTree[p] = normalized(ContentOf(s, hashIn(v.O, p)),
                                                  ContentOf(s, hashIn(v.T, p)),
                                                  name)

----------------------------------------------------------------------------
\* C19: a merge past the guards whose two tips are non-empty, neither reached
\* from the other, with no commit on both parent chains, prints the
\* unrelated-histories line and changes nothing in the repository or the
\* working directory.
UnrelatedHistoriesRefused ==
    \A name \in BranchNames, t \in Times :
        LET s == State(t)
            r == merge(s, name)
        IN  /\ name \in DOMAIN Refs(s)
            /\ r.out \notin {<<l>> : l \in MergeRefusals}
            /\ Ours(s) # EmptyStr /\ Theirs(s, name) # EmptyStr
            /\ ~Reaches(s, Ours(s), Theirs(s, name))
            /\ ~Reaches(s, Theirs(s, name), Ours(s))
            /\ ancestorsOf(s, Ours(s), WalkLimit(s))
                   \cap ancestorsOf(s, Theirs(s, name), WalkLimit(s)) = {}
            => /\ Says(r, <<"No common ancestor found.">>)
               /\ SameDisk(s, r)

\* a merge of two branches that both have commits and share none has just
\* been refused
MergeRefusedUnrelated ==
    /\ Did("merge", <<"No common ancestor found.">>)
    /\ getHEAD(Now) # EmptyStr
    /\ last.arg \in DOMAIN Refs(Now)
    /\ Refs(Now)[last.arg] \notin {EmptyStr, getHEAD(Now)}

----------------------------------------------------------------------------
\* C20: the object store only grows: no step removes an object or changes
\* the content stored under a hash.
ObjectStoreIsImmutable ==
    [][ \A hash \in DOMAIN objects :
            hash \in DOMAIN objects' /\ objects'[hash] = objects[hash] ]_vars

----------------------------------------------------------------------------
\* the objects of the store that saveCommit wrote
IsCommit(s, hash) ==
    hash \in DOMAIN s.objects /\ StartsWith(s.objects[hash], <<"message", ":">>)
Commits(s) == {hash \in DOMAIN s.objects : IsCommit(s, hash)}

\* C21: every blob a stored commit lists is in the object store, and the
\* blobs of a commit just made hold what its paths hold in the working
\* directory at that moment.
CommitBlobsAreStored ==
    /\ \A hash \in Commits(Now) :
           Range(loadCommit(Now, hash).blobHashes) \subseteq DOMAIN objects
    /\ \A msg \in Messages, t \in Times :
           LET s == State(t)
               r == commit(s, msg)
               made == loadCommit(r, getHEAD(r))
           IN  Committed(r) =>
                   \A i \in 1..Len(made.filenames) :
                       LET path == made.filenames[i]
                           blob == made.blobHashes[i]
                       IN  /\ blob \in DOMAIN r.objects
                           /\ path \in DOMAIN s.workTree =>
                                  r.objects[blob] = s.workTree[path]

\* a commit has just been stored whose blob for a path holds what the path
\* holds in the working directory
CommitStoredWorkingContent ==
    /\ last.op = "commit" /\ Committed(last)
    /\ \E path \in DOMAIN HeadFiles(Now) :
           /\ path \in DOMAIN workTree
           /\ HeadFiles(Now)[path] \in DOMAIN objects
           /\ objects[HeadFiles(Now)[path]] = workTree[path]

----------------------------------------------------------------------------
\* C22: every branch of the branch map with a non-empty pointer points to a
\* hash under which the store holds a commit object.
BranchPointersResolve ==
    \A name \in DOMAIN Refs(Now) :
        Refs(Now)[name] # EmptyStr => IsCommit(Now, Refs(Now)[name])

\* a three-way merge has just stored its commit and moved the branch HEAD
\* names to it
BranchMovedToMergeCommit ==
    /\ last.op = "merge"
    /\ Printed(last.out, <<"Committed changes.">>)
    /\ EndsWith(last.out, MergeCompleted)
    /\ HeadBranch(Now) \in DOMAIN Refs(Now)
    /\ IsCommit(Now, Refs(Now)[HeadBranch(Now)])
    /\ loadCommit(Now, Refs(Now)[HeadBranch(Now)]).message
           = <<"Merge branch '">> \o last.arg \o <<"'">>

----------------------------------------------------------------------------
\* C23: before and after every step the branch HEAD names is a key of the
\* branch map, and no step removes a key from the branch map.
HeadBranchIsKeptInMap ==
    [][ LET after == [Now EXCEPT !.headFile = headFile',
                                 !.branchesFile = branchesFile']
        IN  /\ repoExists => HeadBranch(Now) \in DOMAIN Refs(Now)
            /\ repoExists' => HeadBranch(after) \in DOMAIN Refs(after)
            /\ DOMAIN Refs(Now) \subseteq DOMAIN Refs(after) ]_vars

\* checkout has put HEAD on a branch other than master, and master is still
\* in the branch map
HeadOnCheckedOutBranch ==
    /\ repoExists
    /\ HeadBranch(Now) # <<"master">>
    /\ HeadBranch(Now) = currentBranch
    /\ {<<"master">>, HeadBranch(Now)} \subseteq DOMAIN Refs(Now)

----------------------------------------------------------------------------
\* following parent from current reaches the empty parent within fuel steps
RECURSIVE chainEnds(_, _, _)
chainEnds(s, current, fuel) ==
    IF current = EmptyStr THEN TRUE
    ELSE IF fuel = 0 THEN FALSE
    ELSE chainEnds(s, loadCommit(s, current).parent, fuel - 1)

\* the commit n parent links behind hash
RECURSIVE nthParent(_, _, _)
nthParent(s, hash, n) ==
    IF n = 0 \/ hash = EmptyStr THEN hash
    ELSE nthParent(s, loadCommit(s, hash).parent, n - 1)

\* C24: from the commit of HEAD and from every branch pointer the parent
\* links reach the empty parent in no more steps than the store has
\* objects: the links form no cycle.
ParentChainsEnd ==
    \A first \in {getHEAD(Now)} \cup Range(Refs(Now)) :
        chainEnds(Now, first, Cardinality(DOMAIN objects))

\* a merge has just stored a commit on a chain of three commits
MergeCommitThirdOnChain ==
    /\ last.op = "merge" /\ Committed(last)
    /\ nthParent(Now, getHEAD(Now), 2) # EmptyStr
    /\ nthParent(Now, getHEAD(Now), 3) = EmptyStr

----------------------------------------------------------------------------
\* the commits reached from the branch pointers
Reachable(s) == UNION {ancestorsOf(s, tip, WalkLimit(s)) : tip \in Range(Refs(s))}

\* C25: for commits reached from branch pointers, and the empty hash,
\* findCommonAncestor gives the same commit for (a, b) and (b, a); it gives
\* the empty hash exactly when a or b is empty or their parent chains are
\* disjoint, and otherwise a commit on both chains.
CommonAncestorIsSymmetric ==
    \A a, b \in Reachable(Now) \cup {EmptyStr} :
        LET s == Now
            found == findCommonAncestor(s, a, b)
            both == ancestorsOf(s, a, WalkLimit(s)) \cap ancestorsOf(s, b, WalkLimit(s))
        IN  /\ found = findCommonAncestor(s, b, a)
            /\ found = EmptyStr <=> (a = EmptyStr \/ b = EmptyStr \/ both = {})
            /\ found # EmptyStr => found \in both

\* a merge has just run on two tips whose common ancestor is neither of them
MergeFoundCommonAncestor ==
    /\ last.op = "merge"
    /\ Printed(last.out, <<"Performing three-way merge...">>)
    /\ last.arg \in DOMAIN Refs(Now)
    /\ findCommonAncestor(Now, getHEAD(Now), Refs(Now)[last.arg])
           \notin {EmptyStr, getHEAD(Now), Refs(Now)[last.arg]}

----------------------------------------------------------------------------
\* C26: the commit object a commit has just written reads back as the commit
\* that was made: the message given, the time of the commit, the commit of
\* HEAD as parent, and the staged paths in order, each with the hash of its
\* content.
CommitReadsBackEqual ==
    \A msg \in Messages, t \in Times :
        LET s == State(t)
            r == commit(s, msg)
            staged == Sorted(Index(s), PathOrder)
            read == loadCommit(r, getHEAD(r))
        IN  Committed(r) =>
                /\ read.message = msg
                /\ read.timestamp = getCurrentTime(s)
                /\ read.parent = getHEAD(s)
                /\ read.filenames = staged
                /\ read.blobHashes =
                       [i \in 1..Len(staged) |-> computeHash(readFromFile(s, staged[i]))]

----------------------------------------------------------------------------
\* the only error line diff prints
DiffErrors == { <<"Error: Invalid commit hashes provided.">> }

\* C27: diff of two commits, one of them a hash under which the store holds
\* nothing, ends with an error and does not report the commits as read.
MissingCommitIsAnError ==
    \A commit1, commit2 \in DiffCommits :
        LET r == diff(Now, commit1, commit2)
        IN  commit1 \notin DOMAIN objects \/ commit2 \notin DOMAIN objects =>
                /\ r.out[Len(r.out)] \in DiffErrors
                /\ ~Printed(r.out, <<"No differences between the commits.">>)

\* the printed lines of an edit script that add and that delete a line
Additions(out) == {i \in 1..Len(out) : out[i] # <<>> /\ out[i][1] = "+"}
Deletions(out) == {i \in 1..Len(out) : out[i] # <<>> /\ out[i][1] = "-"}

\* the length of a longest common subsequence of the lines a and b
RECURSIVE lcsLength(_, _)
lcsLength(a, b) ==
    IF a = <<>> \/ b = <<>> THEN 0
    ELSE IF Head(a) = Head(b) THEN 1 + lcsLength(Tail(a), Tail(b))
    ELSE LET skipA == lcsLength(Tail(a), b)
             skipB == lcsLength(a, Tail(b))
         IN  IF skipA >= skipB THEN skipA ELSE skipB

\* C29: with one line inserted anywhere into a committed file and the file
\* staged, diff --staged prints one added line and no deleted line; and the
\* edit script between the committed and the working text of a file has
\* m - LCS deleted and n - LCS added lines.
DiffIsMinimal ==
    \A f \in DOMAIN HeadFiles(Now) :
        LET old == ContentOf(Now, HeadFiles(Now)[f])
            oldLines == splitLines(old)
        IN  /\ \A line \in InsertedLines, pos \in 0..Len(oldLines) :
                   LET new == joinLines(insertLine(oldLines, pos, line))
                       r == diff(add(writeToFile(Now, f, new), f),
                                 <<"--staged">>, EmptyStr)
                   IN  repoExists /\ Index(Now) = {} =>
                           /\ Cardinality(Additions(r.out)) = 1
                           /\ Deletions(r.out) = {}
            /\ f \in DOMAIN workTree =>
                   LET newLines == splitLines(workTree[f])
                       r == showUnifiedDiff(Now, f, old, workTree[f])
                       common == lcsLength(oldLines, newLines)
                   IN  /\ Cardinality(Deletions(r.out)) = Len(oldLines) - common
                       /\ Cardinality(Additions(r.out)) = Len(newLines) - common

----------------------------------------------------------------------------
\* the lines with which add, commit, branch, checkout and merge report that
\* they have done what was asked
SuccessLines ==
    {<<"Added to staging area.">>, <<"Committed changes.">>, <<"Created branch.">>,
     <<"Switched to branch.">>, MergeCompleted} \cup FastForwards

\* the results of the commands other than init run in state s
RunsOf(s) ==
    {add(s, f) : f \in Paths} \cup {commit(s, msg) : msg \in Messages}
    \cup {branch(s, b) : b \in BranchNames} \cup {checkout(s, b) : b \in BranchNames}
    \cup {merge(s, b) : b \in BranchNames}
    \cup {diff(s, <<"--staged">>, EmptyStr), diff(s, EmptyStr, EmptyStr)}

\* C28: while the directory .minigit does not exist, no command other than
\* init reports success, and none changes the repository or the working
\* directory.
UninitialisedIsRefused ==
    ~repoExists =>
        \A r \in RunsOf(Now) :
            /\ \A i \in 1..Len(r.out) : r.out[i] \notin SuccessLines
            /\ SameDisk(Now, r)

----------------------------------------------------------------------------
\* C30: in a repository, branch with a name the branch map lacks adds the
\* name, pointing at the commit of HEAD, and changes nothing else: not HEAD,
\* not the current branch, not a pointer of the map; branch with a name of
\* the map is refused and leaves the map as it is.
BranchAddsOnePointer ==
    \A name \in BranchNames :
        LET s == Now
            r == branch(s, name)
        IN  repoExists =>
                /\ r.headFile = s.headFile
                /\ r.currentBranch = s.currentBranch
                /\ r.indexFile = s.indexFile /\ r.mergeHead = s.mergeHead
                /\ r.objects = s.objects /\ r.workTree = s.workTree
                /\ \A b \in DOMAIN Refs(s) :
                       b \in DOMAIN Refs(r) /\ Refs(r)[b] = Refs(s)[b]
                /\ IF name \in DOMAIN Refs(s)
                   THEN /\ Says(r, <<"Branch already exists.">>)
                        /\ DOMAIN Refs(r) = DOMAIN Refs(s)
                        /\ r.branchesFile = s.branchesFile
                   ELSE /\ Says(r, <<"Created branch.">>)
                        /\ DOMAIN Refs(r) = DOMAIN Refs(s) \cup {name}
                        /\ Refs(r)[name] = getHEAD(s)

\* branch has just created a branch at the commit of HEAD, and HEAD is on
\* another branch
BranchCreatedAtHead ==
    /\ Did("branch", <<"Created branch.">>)
    /\ last.arg \in DOMAIN Refs(Now)
    /\ getHEAD(Now) # EmptyStr
    /\ Refs(Now)[last.arg] = getHEAD(Now)
    /\ HeadBranch(Now) # last.arg

----------------------------------------------------------------------------
\* the blobs of the path p in base, ours and theirs differ pairwise
AllThreeDiffer(v, p) ==
    /\ hashIn(v.O, p) # hashIn(v.T, p)
    /\ hashIn(v.B, p) # hashIn(v.O, p)
    /\ hashIn(v.B, p) # hashIn(v.T, p)

\* base has the path p, one side has no blob for it and the other side a
\* blob that is not base's
ChangedAndDeleted(v, p) ==
    /\ hashIn(v.B, p) # EmptyStr
    /\ \/ hashIn(v.O, p) = EmptyStr /\ hashIn(v.T, p) \notin {EmptyStr, hashIn(v.B, p)}
       \/ hashIn(v.T, p) = EmptyStr /\ hashIn(v.O, p) \notin {EmptyStr, hashIn(v.B, p)}

\* C31: a three-way merge reports a path of base, ours and theirs as a
\* conflict exactly when its three blobs differ pairwise (no blob counting
\* as the empty hash); it never reports a same addition or a deletion in
\* both; and for a path one side has changed and the other has deleted it
\* writes the conflict file, makes no commit and moves no pointer.
ConflictIffAllThreeDiffer ==
    \A name \in BranchNames, t \in Times :
        LET s == State(t)
            r == merge(s, name)
            v == View(s, name)
        IN  ThreeWay(s, r, name) =>
                \A p \in Involved(v) :
                    /\ Printed(r.out, <<"Conflict: ">> \o p) <=> AllThreeDiffer(v, p)
                    /\ ~Printed(r.out, <<"Same addition: ">> \o p)
                    /\ ~Printed(r.out, <<"Deleted in both: ">> \o p)
                    /\ ChangedAndDeleted(v, p) =>
                           /\ Printed(r.out, <<"Conflict: ">> \o p)
                           /\ p \in DOMAIN r.workTree
                           /\ r.workTree[p]
                                  = conflictContent(ContentOf(s, hashIn(v.O, p)),
                                                    ContentOf(s, hashIn(v.T, p)),
                                                    name)
                           /\ r.objects = s.objects
                           /\ r.headFile = s.headFile
                           /\ r.branchesFile = s.branchesFile

\* a merge has just ended in conflict on a path that base has, one side has
\* changed and the other has deleted
MergeConflictedOnDeletion ==
    /\ last.op = "merge"
    /\ Printed(last.out, <<"Merge conflicts detected.">>)
    /\ \E p \in Paths :
           /\ Printed(last.out, <<"Conflict: ">> \o p)
           /\ ChangedAndDeleted(View(Now, last.arg), p)

----------------------------------------------------------------------------
\* C32: the branch a successful checkout has written into HEAD is the
\* current branch of every later command, whichever process runs it: the
\* process's current branch is the branch HEAD names, a commit makes the
\* pointer of that branch and HEAD the new commit and moves no other
\* pointer, and merge refuses that branch as a merge with itself.
CheckedOutBranchStaysCurrent ==
    \A t \in Times :
        LET s == State(t)
            b == HeadBranch(s)
            m == merge(s, b)
        IN  repoExists /\ b \in DOMAIN Refs(s) =>
                /\ currentBranch = b
                /\ Says(m, <<"Cannot merge a branch with itself.">>)
                /\ \A message \in Messages :
                       LET r == commit(s, message)
                       IN  Committed(r) =>
                               /\ HeadBranch(r) = b
                               /\ Refs(r)[b] = getHEAD(r)
                               /\ \A o \in DOMAIN Refs(s) \ {b} :
                                      Refs(r)[o] = Refs(s)[o]

----------------------------------------------------------------------------
\* C33: no step takes history from a branch: when a step changes the
\* pointer of a branch from a commit p to another commit q, p is reached
\* from q by parent links.
BranchesKeepTheirHistory ==
    [][ LET after == [Now EXCEPT !.branchesFile = branchesFile',
                                 !.objects = objects']
        IN  \A n \in DOMAIN Refs(Now) :
                LET p == Refs(Now)[n]
                    q == Refs(after)[n]
                IN  /\ n \in DOMAIN Refs(after)
                    /\ p # EmptyStr /\ q # p => Reaches(after, q, p) ]_vars

----------------------------------------------------------------------------
\* C34: right after a three-way merge of a branch has completed without a
\* conflict, merging the same branch again ends as already up to date and
\* changes nothing: no new commit, HEAD, the branch map and the working
\* files as they were.
RepeatedMergeIsUpToDate ==
    last.op = "merge" /\ EndsWith(last.out, MergeCompleted) =>
        \A t \in Times :
            LET s == State(t)
                r == merge(s, last.arg)
            IN  /\ Says(r, UpToDate)
                /\ SameDisk(s, r)

----------------------------------------------------------------------------
\* the texts of a state: the stored objects, the working files, no text
Texts(s) == Range(s.objects) \cup Range(s.workTree) \cup {EmptyStr}

\* the lines of the rounds of a walk whose mark is one of marks, in order
Side(steps, marks) ==
    LET chosen == SelectSeq(steps, LAMBDA e : e[1] \in marks)
    IN  [k \in 1..Len(chosen) |-> Tail(chosen[k])]

\* C35: for the lines old and new of any two texts, the walk of
\* showUnifiedDiff ends after at most Len(old) + Len(new) rounds, the lines
\* it passes as unchanged and the lines it prints with "-" are, in order,
\* old, the lines it passes as unchanged and the lines it prints with "+"
\* are, in order, new, and what it prints are the "-" and "+" rounds.
WalkIsAnEditScript ==
    \A oldContent \in Texts(Now), newContent \in Texts(Now) :
        LET oldLines == splitLines(oldContent)
            newLines == splitLines(newContent)
            lcs == computeLCS(oldLines, newLines)
            steps == editWalk(oldLines, newLines, lcs, 0, 0)
        IN  /\ Len(steps) <= Len(oldLines) + Len(newLines)
            /\ Side(steps, {"=", "-"}) = oldLines
            /\ Side(steps, {"=", "+"}) = newLines
            /\ SelectSeq(steps, LAMBDA e : e[1] # "=")
                   = editScript(oldLines, newLines, lcs, 0, 0)

\* diff has just printed a deleted and an added line for a working file that
\* has a line in common with a stored text
DiffPrintedBothKinds ==
    /\ last.op = "diff"
    /\ Additions(last.out) # {} /\ Deletions(last.out) # {}
    /\ \E f \in DOMAIN workTree, o \in Range(objects) :
           /\ splitLines(workTree[f]) # splitLines(o)
           /\ Range(splitLines(workTree[f])) \cap Range(splitLines(o)) # {}

----------------------------------------------------------------------------
\* the repository as status finds it, the index and the branch map loaded
Loaded(s) == loadStagedFiles(loadBranches(s))

NotStaged == <<"Changes not staged for commit:">>

\* C36, what status does: status classifies a path of the index that is in the
\* working directory as modified exactly when the object store holds, under
\* the hash of the path's current content, no object with that content; it
\* prints the heading "Changes not staged for commit:" exactly when some
\* path is classified as modified.
StagedModifiedIffContentNotStored ==
    LET s == Loaded(Now)
        r == status(Now)
    IN  /\ \A p \in Index(Now) \cap DOMAIN workTree :
               p \in modifiedFiles(s)
                   <=> readObject(s, computeHash(workTree[p])) # workTree[p]
        /\ \A p \in Index(Now) \ DOMAIN workTree : p \notin modifiedFiles(s)
        /\ Printed(r.out, NotStaged) <=> modifiedFiles(s) # {}
        /\ SameDisk(Now, r)

\* status has just listed, as not staged, a path of the index whose current
\* content is not in the object store
StatusReportedStagedPath ==
    /\ last.op = "status"
    /\ Printed(last.out, NotStaged)
    /\ \E p \in Index(Now) \cap DOMAIN workTree :
           /\ computeHash(workTree[p]) \notin DOMAIN objects
           /\ \E i \in 2..Len(last.out) :
                  /\ last.out[i] = <<"  modified:   ">> \o p
                  /\ \E k \in 1..(i - 1) :
                         /\ last.out[k] = NotStaged
                         /\ \A j \in k..i : last.out[j] # EmptyStr

\* C36, as stated: status never classifies a path of the index as modified, whatever
\* the content of the working file and whatever the object store holds.
StagedNeverModified ==
    \A p \in Index(Now) : p \notin modifiedFiles(Loaded(Now))

====
